---------------------------- MODULE Spec2Model ----------------------------
(***************************************************************************)
(* Simposter frontend: the operation-status projector                      *)
(* (stores/operationStatus.ts), the legacy scan store (stores/scan.ts),    *)
(* the status pollers of App.vue and SettingsView.vue, the settings store  *)
(* (stores/settings.ts) with its form, and the preset service with the     *)
(* editor that consumes its presets, and the batch dialog                  *)
(* (BatchEditModal.vue).                                                   *)
(***************************************************************************)
EXTENDS Naturals, Integers, Sequences, FiniteSets, TLC

VARIABLES
    op,        \* module-level refs of stores/operationStatus.ts (+ hideTimer, timer table)
    scan,      \* module-level refs of stores/scan.ts (+ hideTimer, timer table)
    opHist,    \* history: the last operation performed on the operationStatus store
    scanHist,  \* history: the last operation performed on the scan store
    srv,       \* server side progress snapshot per operation kind
    app,       \* App.vue instance: lifecycle, scanPoller, batchPoller
    sv,        \* SettingsView.vue instance: lifecycle, scanPoller, scanLibrary position
    inflight,  \* HTTP requests issued and not yet resolved
    polls,     \* history: per poller, fetches and interval ticks since it was started
    settings,  \* module-level refs of stores/settings.ts
    form,      \* SettingsView.vue instance: lifecycle, staging refs, status text
    db,        \* server side: the persisted UI settings
    cfgReqs,   \* settings requests (GET/POST /api/ui-settings) issued and not resolved
    cfgHist,   \* history: the last operation of the settings store or its form
    psvc,      \* one usePresetService() instance: its refs
    pdb,       \* server side: the templates and their presets
    preqs,     \* preset requests (GET /api/presets, POST /api/presets/save) not resolved
    editor,    \* the editor that owns the preset service: live parameters, last payload
    modal      \* BatchEditModal.vue instance with its requests and the notifications

\* the settings store, its form and the server behind them
settingsVars == <<settings, form, db, cfgReqs, cfgHist>>

\* the preset service, its editor and the server behind them
presetVars == <<psvc, pdb, preqs, editor>>

\* what the status pollers leave alone: the configuration side of the client
\* and the batch dialog
cfgVars == <<settingsVars, presetVars, modal>>

\* what the settings store, its form and the preset service leave alone: the
\* status side of the client and the batch dialog
pollVars == <<op, scan, opHist, scanHist, srv, app, sv, inflight, polls, modal>>

vars == <<pollVars, cfgVars>>

---------------------------------------------------------------------------
(* Bounds of the model *)

\* largest processed/total value a snapshot carries
MaxItems == 1
\* jobs (of both kinds together) requested in one behaviour
MaxRuns == 1
\* HTTP requests that may be in flight at the same time
MaxInflight == 2
\* interval ticks counted per poller since it was started
MaxTicks == 2

---------------------------------------------------------------------------
(* Values *)

Null == "null"

States == {"idle", "running", "done", "error"}

\* a parsed response body that is null/undefined: it has no fields at all
NoStatus == [nil |-> TRUE]

\* status.f || dflt : a missing or falsy field yields the default
Field(status, f, falsy, dflt) ==
    IF f \in DOMAIN status /\ status[f] # falsy THEN status[f] ELSE dflt

Progress(status) ==
    [processed |-> Field(status, "processed", 0, 0),
     total     |-> Field(status, "total", 0, 0)]

\* smallest timer id not in use (window.setTimeout hands out a fresh id)
FreshTimer(timers) ==
    CHOOSE i \in 1..(Cardinality(timers) + 1) : i \notin timers

\* clearTimeout(id): removes the timer if it is still pending, else nothing
ClearTimeout(timers, id) == timers \ {id}

---------------------------------------------------------------------------
(* stores/operationStatus.ts *)

OpInit ==
    [type |-> Null, state |-> "idle", visible |-> FALSE,
     progress |-> [processed |-> 0, total |-> 0],
     currentMovie |-> "", currentStep |-> "", error |-> Null,
     checking |-> FALSE, activeRunStarted |-> FALSE,
     hideTimer |-> 0,     \* 0 is the null handle
     timers |-> {}]       \* pending timeouts created by scheduleHide

OpScheduleHide(p) ==
    LET cleared == IF p.hideTimer # 0 THEN ClearTimeout(p.timers, p.hideTimer)
                   ELSE p.timers
        id == FreshTimer(cleared)
    IN  [p EXCEPT !.hideTimer = id, !.timers = cleared \cup {id}]

\* a hide callback that hides the overlay and leaves its texts
OpHideCallbackKeepsText(p) == [p EXCEPT !.visible = FALSE, !.type = Null]

\* the callback given to setTimeout in scheduleHide
OpHideCallback(p) ==
    [p EXCEPT !.visible = FALSE, !.currentMovie = "", !.currentStep = "",
              !.type = Null]

\* the guard of the completion banner with activeRunStarted left out
OpShowCompletionAlways(isDone, isError, activeRunStarted) == isDone \/ isError

\* const showCompletion = (isDone || isError) && activeRunStarted.value
OpShowCompletion(isDone, isError, activeRunStarted) ==
    (isDone \/ isError) /\ activeRunStarted

\* a new run that leaves the previous hide timer alone
OpCancelHideNever(p, isRunning) == p

\* if (isRunning && hideTimer) { clearTimeout(hideTimer); hideTimer = null }
OpCancelHide(p, isRunning) ==
    IF isRunning /\ p.hideTimer # 0
    THEN [p EXCEPT !.timers = ClearTimeout(p.timers, p.hideTimer), !.hideTimer = 0]
    ELSE p

OpApplyStatus(p, status, operationType) ==
    IF "nil" \in DOMAIN status THEN p                           \* if (!status) return
    ELSE
    LET st        == Field(status, "state", "", "")
        isRunning == st = "running"
        isDone    == st = "done"
        isError   == st = "error"
        p1 == OpCancelHide(p, isRunning)
        ars == IF isRunning THEN TRUE ELSE p1.activeRunStarted
        showCompletion == OpShowCompletion(isDone, isError, ars)
        p2 == [p1 EXCEPT
                 !.state = IF st # "" THEN st ELSE "idle",
                 !.type = operationType,
                 !.activeRunStarted = ars,
                 \* keep overlay visible while running, or briefly after completion
                 !.visible = isRunning \/ showCompletion,
                 !.progress = Progress(status),
                 \* for scan library 'current'; for batch 'current_movie'
                 !.currentMovie = Field(status, "current_movie", "",
                                        Field(status, "current", "", "")),
                 !.currentStep = Field(status, "current_step", "", ""),
                 !.error = Field(status, "error", "", Null),
                 !.checking = FALSE]
    IN  IF showCompletion
        THEN OpScheduleHide([p2 EXCEPT !.activeRunStarted = FALSE])
        ELSE IF ~isRunning THEN [p2 EXCEPT !.visible = FALSE]
        ELSE p2

\* reset that forgets to cancel the pending hide timer
OpResetKeepTimer(p) == [OpInit EXCEPT !.hideTimer = p.hideTimer, !.timers = p.timers]

OpReset(p) ==
    LET cleared == IF p.hideTimer # 0 THEN ClearTimeout(p.timers, p.hideTimer)
                   ELSE p.timers
    IN  [p EXCEPT !.timers = cleared, !.hideTimer = 0,
                  !.type = Null, !.state = "idle", !.visible = FALSE,
                  !.progress = [processed |-> 0, total |-> 0],
                  !.currentMovie = "", !.currentStep = "", !.error = Null,
                  !.checking = FALSE, !.activeRunStarted = FALSE]

---------------------------------------------------------------------------
(* stores/scan.ts *)

ScanInit ==
    [running |-> FALSE, visible |-> FALSE,
     progress |-> [processed |-> 0, total |-> 0],
     current |-> "", log |-> <<>>, checking |-> FALSE,
     activeRunStarted |-> FALSE, lastFinishedAt |-> Null,
     hideTimer |-> 0, timers |-> {}]

ScanScheduleHide(s) ==
    LET cleared == IF s.hideTimer # 0 THEN ClearTimeout(s.timers, s.hideTimer)
                   ELSE s.timers
        id == FreshTimer(cleared)
    IN  [s EXCEPT !.hideTimer = id, !.timers = cleared \cup {id}]

\* the callback given to setTimeout in scheduleHide
ScanHideCallback(s) ==
    [s EXCEPT !.visible = FALSE, !.log = <<>>, !.current = ""]

\* `Done${total ? `: ${processed}/${total}` : ''}`
DoneLine(processed, total) ==
    IF total # 0
    THEN "Done: " \o ToString(processed) \o "/" \o ToString(total)
    ELSE "Done"

\* new Date().toISOString(): a client-side time stamp
ClientNow == "now"

\* const showCompletion = isDone && activeRunStarted.value
ScanShowCompletion(isDone, activeRunStarted) == isDone /\ activeRunStarted

ScanApplyStatus(s, status) ==
    IF "nil" \in DOMAIN status THEN s                           \* if (!status) return
    ELSE
    LET st        == Field(status, "state", "", "")
        isRunning == st = "running"
        isDone    == st = "done"
        \* only cancel hide timer when a new run is in progress
        s1 == IF isRunning /\ s.hideTimer # 0
              THEN [s EXCEPT !.timers = ClearTimeout(s.timers, s.hideTimer),
                             !.hideTimer = 0]
              ELSE s
        ars == IF isRunning THEN TRUE ELSE s1.activeRunStarted
        showCompletion == ScanShowCompletion(isDone, ars)
        progress == Progress(status)
        s2 == [s1 EXCEPT
                 !.running = isRunning,
                 !.activeRunStarted = ars,
                 !.visible = isRunning \/ showCompletion,
                 !.progress = progress,
                 !.current = IF isDone THEN "" ELSE Field(status, "current", "", ""),
                 !.log = IF "log" \in DOMAIN status THEN status.log ELSE @,
                 !.checking = FALSE]
        finished == Field(status, "finished_at", Null, Null)
    IN  IF showCompletion
        THEN ScanScheduleHide(
               [s2 EXCEPT !.log = <<DoneLine(progress.processed, progress.total)>>,
                          !.lastFinishedAt = IF finished # Null THEN finished
                                             ELSE ClientNow,
                          !.activeRunStarted = FALSE,
                          !.running = FALSE])
        ELSE IF ~s2.running
        THEN [s2 EXCEPT !.visible = FALSE,
                        !.lastFinishedAt = IF isDone /\ finished # Null
                                           THEN finished ELSE @]
        ELSE s2

ScanReset(s) ==
    LET cleared == IF s.hideTimer # 0 THEN ClearTimeout(s.timers, s.hideTimer)
                   ELSE s.timers
    IN  [s EXCEPT !.timers = cleared, !.hideTimer = 0,
                  !.running = FALSE, !.visible = FALSE,
                  !.progress = [processed |-> 0, total |-> 0],
                  !.current = "", !.log = <<>>, !.checking = FALSE,
                  !.activeRunStarted = FALSE, !.lastFinishedAt = Null]


---------------------------------------------------------------------------
(* Store level steps, with their history *)

\* kind: the last operation (init, apply, hide, reset, direct: a field written
\* by a view); st, progress: the last snapshot applied since init or reset;
\* preRunning, preArs, preTimer: the store just before the last apply or reset
\* (running shown, activeRunStarted, a hide timer pending); runSeen: a running
\* snapshot was applied since init or reset
HistInit == [kind |-> "init", st |-> "", progress |-> [processed |-> 0, total |-> 0],
             preRunning |-> FALSE, preArs |-> FALSE, preTimer |-> FALSE,
             runSeen |-> FALSE]

ApplyHist(hist, status, preRunning, preArs, preTimer) ==
    IF "nil" \in DOMAIN status THEN hist
    ELSE [kind |-> "apply", st |-> Field(status, "state", "", ""),
          progress |-> Progress(status),
          preRunning |-> preRunning, preArs |-> preArs, preTimer |-> preTimer,
          runSeen |-> hist.runSeen \/ Field(status, "state", "", "") = "running"]

OpApply(status, operationType) ==
    /\ op' = OpApplyStatus(op, status, operationType)
    /\ opHist' = ApplyHist(opHist, status, op.state = "running",
                           op.activeRunStarted, op.timers # {})

ScanApply(status) ==
    /\ scan' = ScanApplyStatus(scan, status)
    /\ scanHist' = ApplyHist(scanHist, status, scan.running,
                             scan.activeRunStarted, scan.timers # {})

\* the 5000 ms timeout of scheduleHide elapses
OpHideFire ==
    /\ \E id \in op.timers :
         op' = [OpHideCallback(op) EXCEPT !.timers = op.timers \ {id}]
    /\ opHist' = [opHist EXCEPT !.kind = "hide"]
    /\ UNCHANGED <<scan, scanHist, srv, app, sv, inflight, polls, cfgVars>>

ScanHideFire ==
    /\ \E id \in scan.timers :
         scan' = [ScanHideCallback(scan) EXCEPT !.timers = scan.timers \ {id}]
    /\ scanHist' = [scanHist EXCEPT !.kind = "hide"]
    /\ UNCHANGED <<op, opHist, srv, app, sv, inflight, polls, cfgVars>>

OpResetCall ==
    /\ op' = OpReset(op)
    /\ opHist' = [HistInit EXCEPT !.kind = "reset", !.preTimer = op.timers # {}]
    /\ UNCHANGED <<scan, scanHist, srv, app, sv, inflight, polls, cfgVars>>

ScanResetCall ==
    /\ scan' = ScanReset(scan)
    /\ scanHist' = [HistInit EXCEPT !.kind = "reset", !.preTimer = scan.timers # {}]
    /\ UNCHANGED <<op, opHist, srv, app, sv, inflight, polls, cfgVars>>

---------------------------------------------------------------------------
(* The server's progress store, read by GET /api/scan-progress and         *)
(* GET /api/batch-progress                                                 *)

Kinds == {"scan", "batch"}

SrvIdle ==
    [state |-> "idle", processed |-> 0, total |-> 0, current |-> "",
     current_step |-> "", log |-> <<>>, error |-> Null, finished_at |-> Null]

SrvRunning == [SrvIdle EXCEPT !.state = "running"]

\* the JSON body of a progress response
Body(k, snap) ==
    IF k = "batch"
    THEN [state |-> snap.state, processed |-> snap.processed, total |-> snap.total,
          current_movie |-> snap.current, current_step |-> snap.current_step,
          error |-> snap.error]
    ELSE [state |-> snap.state, processed |-> snap.processed, total |-> snap.total,
          current |-> snap.current, log |-> snap.log,
          finished_at |-> snap.finished_at]


---------------------------------------------------------------------------
(* Requests in flight *)

Sources == {"fetchScanStatus", "fetchBatchStatus", "appScanPoll", "appBatchPoll",
            "svScanPoll", "scanLibrary"}

KindOf(src) ==
    IF src \in {"fetchBatchStatus", "appBatchPoll"} THEN "batch" ELSE "scan"

FreshId(reqs) ==
    CHOOSE i \in 1..(Cardinality(reqs) + 1) : \A r \in reqs : r.id # i

\* fetch(...): a request leaves the client
Request(reqs, src) ==
    reqs \cup {[id |-> FreshId(reqs), src |-> src, stage |-> "sent",
                res |-> "none", body |-> NoStatus]}

Room(n) == Cardinality(inflight) + n <= MaxInflight

Resolved(r, res, body) == [r EXCEPT !.stage = "resp", !.res = res, !.body = body]

\* the server ends every scan-library request that waits for the scan's end
EndScanRequests(reqs, res, body) ==
    {IF r.stage = "serving" THEN Resolved(r, res, body) ELSE r : r \in reqs}

---------------------------------------------------------------------------
(* The server: progress store and operation runner *)

\* a job is started by a request of some client (BatchEditModal, another browser)
SrvStart(k) ==
    /\ srv[k].state # "running"
    /\ srv.runs < MaxRuns
    /\ srv' = [srv EXCEPT ![k] = SrvRunning, !.runs = @ + 1]
    /\ UNCHANGED <<op, scan, opHist, scanHist, app, sv, inflight, polls, cfgVars>>

\* enumeration complete: total becomes known
SrvSetTotal(k) ==
    /\ srv[k].state = "running" /\ srv[k].total = 0
    /\ \E n \in 1..MaxItems : srv' = [srv EXCEPT ![k].total = n]
    /\ UNCHANGED <<op, scan, opHist, scanHist, app, sv, inflight, polls, cfgVars>>

\* a runner that counts items beyond the total
SrvItemUncounted(k) ==
    /\ srv[k].state = "running" /\ srv[k].total > 0
    /\ srv[k].processed <= MaxItems
    /\ srv' = [srv EXCEPT ![k].processed = @ + 1, ![k].current = "movie",
                          ![k].current_step = "rendering", ![k].log = <<"movie">>]
    /\ UNCHANGED <<op, scan, opHist, scanHist, app, sv, inflight, polls, cfgVars>>

\* one item attempted
SrvItem(k) ==
    /\ srv[k].state = "running" /\ srv[k].processed < srv[k].total
    /\ srv' = [srv EXCEPT ![k].processed = @ + 1, ![k].current = "movie",
                          ![k].current_step = "rendering", ![k].log = <<"movie">>]
    /\ UNCHANGED <<op, scan, opHist, scanHist, app, sv, inflight, polls, cfgVars>>

SrvFinish(k) ==
    /\ srv[k].state = "running" /\ srv[k].processed = srv[k].total
    /\ srv' = [srv EXCEPT ![k].state = "done", ![k].finished_at = "t"]
    /\ inflight' = IF k = "scan" THEN EndScanRequests(inflight, "ok", [movies |-> srv.scan.total])
                   ELSE inflight
    /\ UNCHANGED <<op, scan, opHist, scanHist, app, sv, polls, cfgVars>>

\* the enumeration itself fails
SrvFail(k) ==
    /\ srv[k].state = "running" /\ srv[k].total = 0
    /\ srv' = [srv EXCEPT ![k].state = "error", ![k].error = "unreachable",
                          ![k].finished_at = "t"]
    /\ inflight' = IF k = "scan" THEN EndScanRequests(inflight, "notok", NoStatus)
                   ELSE inflight
    /\ UNCHANGED <<op, scan, opHist, scanHist, app, sv, polls, cfgVars>>

\* GET /api/<kind>-progress answered with the current snapshot
SrvRespond(r) ==
    /\ r.stage = "sent" /\ r.src # "scanLibrary"
    /\ inflight' = (inflight \ {r})
                     \cup {Resolved(r, "ok", Body(KindOf(r.src), srv[KindOf(r.src)]))}
    /\ UNCHANGED <<op, scan, opHist, scanHist, srv, app, sv, polls, cfgVars>>

\* POST /api/scan-library: runs the scan and answers at its end;
\* a scan already running is answered with an error at once
SrvScanLibrary(r) ==
    /\ r.stage = "sent" /\ r.src = "scanLibrary"
    /\ IF srv.scan.state = "running"
       THEN /\ inflight' = (inflight \ {r}) \cup {Resolved(r, "notok", NoStatus)}
            /\ srv' = srv
       ELSE /\ inflight' = (inflight \ {r}) \cup {[r EXCEPT !.stage = "serving"]}
            /\ srv' = [srv EXCEPT !.scan = SrvRunning]
    /\ UNCHANGED <<op, scan, opHist, scanHist, app, sv, polls, cfgVars>>

\* the request fails in transport (fetch throws) or is answered non-OK
NetFail(r) ==
    /\ r.stage \in {"sent", "serving"}
    /\ \E res \in {"threw", "notok"} :
         inflight' = (inflight \ {r}) \cup {Resolved(r, res, NoStatus)}
    /\ UNCHANGED <<op, scan, opHist, scanHist, srv, app, sv, polls, cfgVars>>


---------------------------------------------------------------------------
(* Interval pollers: a handle variable and the intervals that are live *)

NoPoller == [handle |-> 0, live |-> {}]

\* if (poller !== null) { clearInterval(poller); poller = null }
StopPoller(pr) ==
    IF pr.handle # 0 THEN [handle |-> 0, live |-> pr.live \ {pr.handle}] ELSE pr

\* stop...Polling(); poller = window.setInterval(...)
StartPoller(pr) ==
    LET stopped == StopPoller(pr)
        id == FreshTimer(stopped.live)
    IN  [handle |-> id, live |-> stopped.live \cup {id}]

Pollers == {"appScan", "appBatch", "svScan"}

\* history of one poller since it was last started: fetches issued, interval
\* ticks run (both stop counting at MaxTicks), whether a done/error snapshot
\* was received, and how the poller stopped itself: on the first terminal
\* snapshot or on a later one
Started(first) ==
    [fetches |-> first, ticks |-> 0, termSeen |-> FALSE, stop |-> "no"]

Ticked(c) ==
    IF c.ticks < MaxTicks
    THEN [c EXCEPT !.fetches = @ + 1, !.ticks = @ + 1]
    ELSE c

\* data.state && data.state !== 'running'
NotRunning(data) ==
    Field(data, "state", "", "") # "" /\ Field(data, "state", "", "") # "running"

Polled(c, r, pr) ==
    IF r.res # "ok" THEN c
    ELSE [c EXCEPT !.termSeen = @ \/ r.body.state \in {"done", "error"},
                   !.stop = IF NotRunning(r.body) /\ pr.handle # 0
                            THEN (IF c.termSeen THEN "confirmed" ELSE "first")
                            ELSE @]

\* a poll handler that gives up polling when a request fails
StopOnFailure(pr) == StopPoller(pr)

\* if (!res.ok) return ... catch { /* ignore */ }: the poller stays as it is
IgnoreFailure(pr) == pr

\* a self-stop that waits for nothing: it stops on every snapshot
StopAlways(pr, data) == StopPoller(pr)

\* if (data.state && data.state !== 'running') stop...Polling()
SelfStop(pr, data) == IF NotRunning(data) THEN StopPoller(pr) ELSE pr

---------------------------------------------------------------------------
(* App.vue *)

\* onMounted: scan.checking = true; fetchScanStatus(); fetchBatchStatus()
AppMount ==
    /\ app.state = "setup" /\ Room(2)
    /\ app' = [app EXCEPT !.state = "mounted"]
    /\ scan' = [scan EXCEPT !.checking = TRUE]
    /\ scanHist' = [scanHist EXCEPT !.kind = "direct"]
    /\ inflight' = Request(Request(inflight, "fetchScanStatus"), "fetchBatchStatus")
    /\ UNCHANGED <<op, opHist, srv, sv, polls, cfgVars>>

\* onUnmounted: stopScanPolling(); stopBatchPolling()
AppUnmount ==
    /\ app.state = "mounted"
    /\ app' = [app EXCEPT !.state = "unmounted",
                          !.scan = StopPoller(@), !.batch = StopPoller(@)]
    /\ UNCHANGED <<op, scan, opHist, scanHist, srv, sv, inflight, polls, cfgVars>>

\* startScanPolling: stopScanPolling(); scanPoller = setInterval(..., 3000);
\* nothing is fetched before the first interval has elapsed
AppStartScanPolling(reqs) ==
    /\ app' = [app EXCEPT !.scan = StartPoller(@)]
    /\ polls' = [polls EXCEPT !.appScan = Started(0)]
    /\ inflight' = reqs

\* fetchScanStatus resolves, then the .then() callback of onMounted runs
FetchScanStatusDone(r) ==
    /\ r.stage = "resp" /\ r.src = "fetchScanStatus"
    /\ IF r.res = "ok"
       THEN /\ ScanApply(r.body)
            /\ IF r.body.state = "running"
               THEN AppStartScanPolling(inflight \ {r})
               ELSE /\ inflight' = inflight \ {r}
                    /\ UNCHANGED <<app, polls>>
       ELSE /\ scan' = [scan EXCEPT !.checking = FALSE]
            /\ scanHist' = [scanHist EXCEPT !.kind = "direct"]
            /\ inflight' = inflight \ {r}
            /\ UNCHANGED <<app, polls>>
    /\ UNCHANGED <<op, opHist, srv, sv, cfgVars>>

\* one run of the interval callback of startScanPolling, up to its fetch
AppScanTick ==
    /\ app.scan.live # {} /\ Room(1)
    /\ inflight' = Request(inflight, "appScanPoll")
    /\ polls' = [polls EXCEPT !.appScan = Ticked(@)]
    /\ UNCHANGED <<op, scan, opHist, scanHist, srv, app, sv, cfgVars>>

\* the rest of the interval callback, once its fetch has resolved
AppScanPollDone(r) ==
    /\ r.stage = "resp" /\ r.src = "appScanPoll"
    /\ inflight' = inflight \ {r}
    /\ polls' = [polls EXCEPT !.appScan = Polled(@, r, app.scan),
                              !.failed = IF r.res # "ok" THEN r.src ELSE ""]
    /\ IF r.res = "ok"
       THEN /\ ScanApply(r.body)
            /\ app' = [app EXCEPT !.scan = SelfStop(@, r.body)]
       ELSE /\ app' = [app EXCEPT !.scan = IgnoreFailure(@)]
            /\ UNCHANGED <<scan, scanHist>>
    /\ UNCHANGED <<op, opHist, srv, sv, cfgVars>>

\* a startBatchPolling without its first pollOnce()
AppStartBatchPollingNoFetch(reqs) ==
    /\ app' = [app EXCEPT !.batch = StartPoller(@)]
    /\ polls' = [polls EXCEPT !.appBatch = Started(0)]
    /\ inflight' = reqs

\* startBatchPolling: stopBatchPolling(); pollOnce(); setInterval(pollOnce, 200)
AppStartBatchPolling(reqs) ==
    /\ app' = [app EXCEPT !.batch = StartPoller(@)]
    /\ polls' = [polls EXCEPT !.appBatch = Started(1)]
    /\ inflight' = Request(reqs, "appBatchPoll")

\* fetchBatchStatus resolves, then the .then() callback of onMounted runs
FetchBatchStatusDone(r) ==
    /\ r.stage = "resp" /\ r.src = "fetchBatchStatus"
    /\ IF r.res = "ok"
       THEN /\ OpApply(r.body, "batch")
            /\ IF r.body.state = "running"
               THEN AppStartBatchPolling(inflight \ {r})
               ELSE /\ inflight' = inflight \ {r}
                    /\ UNCHANGED <<app, polls>>
       ELSE /\ inflight' = inflight \ {r}
            /\ UNCHANGED <<op, opHist, app, polls>>
    /\ UNCHANGED <<scan, scanHist, srv, sv, cfgVars>>

\* pollOnce run by the interval, up to its fetch
AppBatchTick ==
    /\ app.batch.live # {} /\ Room(1)
    /\ inflight' = Request(inflight, "appBatchPoll")
    /\ polls' = [polls EXCEPT !.appBatch = Ticked(@)]
    /\ UNCHANGED <<op, scan, opHist, scanHist, srv, app, sv, cfgVars>>

\* the rest of pollOnce, once its fetch has resolved
AppBatchPollDone(r) ==
    /\ r.stage = "resp" /\ r.src = "appBatchPoll"
    /\ inflight' = inflight \ {r}
    /\ polls' = [polls EXCEPT !.appBatch = Polled(@, r, app.batch),
                              !.failed = IF r.res # "ok" THEN r.src ELSE ""]
    /\ IF r.res = "ok"
       THEN /\ OpApply(r.body, "batch")
            /\ app' = [app EXCEPT !.batch = SelfStop(@, r.body)]
       ELSE /\ app' = [app EXCEPT !.batch = IgnoreFailure(@)]
            /\ UNCHANGED <<op, opHist>>
    /\ UNCHANGED <<scan, scanHist, srv, sv, cfgVars>>

---------------------------------------------------------------------------
(* views/SettingsView.vue: the scan button and its own scan poller.        *)
(* The status text `saved` of the view is not part of this model.          *)

SvMount ==
    /\ sv.state = "none"
    /\ sv' = [sv EXCEPT !.state = "mounted"]
    /\ UNCHANGED <<op, scan, opHist, scanHist, srv, app, inflight, polls, cfgVars>>

\* the router leaves the Settings view; the component registers no unmount hook
SvUnmount ==
    /\ sv.state = "mounted"
    /\ sv' = [sv EXCEPT !.state = "unmounted"]
    /\ UNCHANGED <<op, scan, opHist, scanHist, srv, app, inflight, polls, cfgVars>>

\* scanLibrary up to its await fetch(.../api/scan-library); the button is
\* disabled while scan.running or scan.checking
ScanLibrary ==
    /\ sv.state = "mounted" /\ srv.runs < MaxRuns /\ Room(1)
    /\ ~scan.running /\ ~scan.checking
    /\ scan' = [scan EXCEPT !.visible = TRUE, !.log = <<"Starting rescan...">>,
                            !.progress = [processed |-> 0, total |-> 0],
                            !.current = "", !.running = TRUE]
    /\ scanHist' = [scanHist EXCEPT !.kind = "direct"]
    /\ sv' = [sv EXCEPT !.scan = StartPoller(@)]
    /\ polls' = [polls EXCEPT !.svScan = Started(0)]
    /\ inflight' = Request(inflight, "scanLibrary")
    /\ srv' = [srv EXCEPT !.runs = @ + 1]
    /\ UNCHANGED <<op, opHist, app, cfgVars>>

\* a scanLibrary that shows the overlay before it looks at scan.running
ScanLibraryRefusedShows ==
    /\ sv.state = "mounted" /\ scan.running
    /\ scan' = [scan EXCEPT !.visible = TRUE, !.log = <<"Starting rescan...">>]
    /\ scanHist' = [scanHist EXCEPT !.kind = "refused"]
    /\ UNCHANGED <<op, opHist, srv, app, sv, inflight, polls, cfgVars>>

\* scanLibrary called while scan.running: 'Scan already in progress', return
ScanLibraryRefused ==
    /\ sv.state = "mounted" /\ scan.running
    /\ scanHist' = [scanHist EXCEPT !.kind = "refused"]
    /\ UNCHANGED <<op, scan, opHist, srv, app, sv, inflight, polls, cfgVars>>

Min(a, b) == IF a < b THEN a ELSE b

\* data.movies.slice(0, 20) as titles, and `...and N more` beyond 20
MovieLog(n) ==
    [i \in 1..Min(n, 20) |-> "movie"]
      \o (IF n > 20 THEN <<"...and " \o ToString(n - 20) \o " more">> ELSE <<>>)

\* `Scan failed: ${e.message}`: the thrown `API error ${res.status}`, or the
\* message of the error fetch threw
FailedLine(res) ==
    "Scan failed: " \o (IF res = "notok" THEN "API error" ELSE "Failed to fetch")

\* the rest of scanLibrary, once the scan-library request has resolved
ScanLibraryDone(r) ==
    /\ r.stage = "resp" /\ r.src = "scanLibrary"
    /\ inflight' = inflight \ {r}
    /\ IF r.res = "ok"
       THEN /\ scan' = [scan EXCEPT
                          !.progress = [processed |-> r.body.movies,
                                        total |-> r.body.movies],
                          !.log = MovieLog(r.body.movies),
                          !.running = FALSE]
            /\ sv' = [sv EXCEPT !.scan = StopPoller(@)]
       ELSE /\ scan' = [scan EXCEPT !.log = <<FailedLine(r.res)>>, !.running = FALSE]
            /\ sv' = [sv EXCEPT !.scan = StopPoller(@), !.failTimers = @ + 1]
    /\ scanHist' = [scanHist EXCEPT !.kind = "direct"]
    /\ UNCHANGED <<op, opHist, srv, app, polls, cfgVars>>

\* the 3000 ms timeout set in the catch block of scanLibrary
SvFailTimerFire ==
    /\ sv.failTimers > 0
    /\ sv' = [sv EXCEPT !.failTimers = @ - 1]
    /\ scan' = [scan EXCEPT !.visible = FALSE]
    /\ scanHist' = [scanHist EXCEPT !.kind = "direct"]
    /\ UNCHANGED <<op, opHist, srv, app, inflight, polls, cfgVars>>

\* one run of the interval callback of startScanPolling, up to its fetch
SvScanTick ==
    /\ sv.scan.live # {} /\ Room(1)
    /\ inflight' = Request(inflight, "svScanPoll")
    /\ polls' = [polls EXCEPT !.svScan = Ticked(@)]
    /\ UNCHANGED <<op, scan, opHist, scanHist, srv, app, sv, cfgVars>>

\* Math.min(100, Math.round((processed / total) * 100))
Pct(processed, total) == Min(100, (200 * processed + total) \div (2 * total))

\* `${processed}/${total} (${pct}%) ${current || ''}`
ProgressLine(progress, current) ==
    ToString(progress.processed) \o "/" \o ToString(progress.total) \o " ("
      \o ToString(Pct(progress.processed, progress.total)) \o "%) " \o current

\* the store after the interval callback of the Settings view has used `data`
SvPollResult(s, data) ==
    LET s1 == IF Field(data, "total", 0, 0) # 0
              THEN [s EXCEPT !.progress = Progress(data)] ELSE s
        s2 == IF Field(data, "current", "", "") # ""
              THEN [s1 EXCEPT !.current = data.current] ELSE s1
        s3 == IF s2.progress.total # 0
              THEN [s2 EXCEPT !.log = <<ProgressLine(s2.progress, s2.current)>>]
              ELSE s2
    IN  IF NotRunning(data)
        THEN [s3 EXCEPT !.running = FALSE, !.visible = FALSE]
        ELSE s3

\* the rest of the interval callback, once its fetch has resolved
SvScanPollDone(r) ==
    /\ r.stage = "resp" /\ r.src = "svScanPoll"
    /\ inflight' = inflight \ {r}
    /\ polls' = [polls EXCEPT !.svScan = Polled(@, r, sv.scan),
                              !.failed = IF r.res # "ok" THEN r.src ELSE ""]
    /\ IF r.res = "ok"
       THEN /\ scan' = SvPollResult(scan, r.body)
            /\ scanHist' = [scanHist EXCEPT !.kind = "direct"]
            /\ sv' = [sv EXCEPT !.scan = SelfStop(@, r.body)]
       ELSE /\ sv' = [sv EXCEPT !.scan = IgnoreFailure(@)]
            /\ UNCHANGED <<scan, scanHist>>
    /\ UNCHANGED <<op, opHist, srv, app, cfgVars>>

---------------------------------------------------------------------------
(* stores/settings.ts *)

\* settings requests that may be in flight at the same time
MaxCfgInflight == 2
\* what the user does with the Settings view in one behaviour: opening it,
\* an edit of a staging ref, a click on Save
MaxActs == 3

Themes == {"neon", "light"}
Densities == {20, 50}
Locations == {"/output", "/posters"}
LabelNames == {"4K"}

SettingKeys == {"theme", "showBoundingBoxes", "autoSave", "posterDensity",
                "defaultLabelsToRemove", "saveLocation"}

SettingsInit ==
    [theme |-> "neon", showBoundingBoxes |-> TRUE, autoSave |-> FALSE,
     posterDensity |-> 20, defaultLabelsToRemove |-> <<>>,
     loading |-> FALSE, error |-> Null, loaded |-> FALSE,
     saveLocation |-> "/output"]

\* the settings proper, without the flags of the store
Values(st) == [k \in SettingKeys |-> st[k]]

\* e instanceof Error ? e.message : fallback; a rejected fetch and the
\* Error thrown for a non-OK response are both Errors
ErrorMessage(res) == IF res = "threw" THEN "Failed to fetch" ELSE "API error 500"

\* loadSettings, up to the fetch
LoadStarted(st) == [st EXCEPT !.loading = TRUE, !.error = Null]

\* the body of GET /api/ui-settings, read field by field (lines 33-39); a
\* field the body lacks reads as "", 0, FALSE, <<>> or Null
Loaded(st, data) ==
    [st EXCEPT !.theme = IF data.theme = "" THEN "neon" ELSE data.theme,
               !.showBoundingBoxes = data.showBoundingBoxes,
               !.autoSave = data.autoSave,
               !.posterDensity = IF data.posterDensity = 0 THEN 20
                                 ELSE data.posterDensity,
               !.defaultLabelsToRemove = data.defaultLabelsToRemove,
               !.loaded = TRUE,
               !.saveLocation = IF data.saveLocation = Null THEN "/output"
                                ELSE data.saveLocation]

\* loadSettings, after the fetch: the try block, catch and finally
LoadFinished(st, res, data) ==
    [IF res = "ok" THEN Loaded(st, data)
     ELSE [st EXCEPT !.error = ErrorMessage(res)]
       EXCEPT !.loading = FALSE]

\* saveSettings, up to the fetch
SaveStarted(st) == [st EXCEPT !.loading = TRUE, !.error = Null]

\* the payload of POST /api/ui-settings
Payload(st) == Values(st)

\* saveSettings, after the fetch
SaveFinished(st, res) ==
    [st EXCEPT !.error = IF res = "ok" THEN @ ELSE ErrorMessage(res),
               !.loading = FALSE]

\* the guard of useSettingsStore, repeated by the views before settings.load()
MayLoad(st) == ~st.loaded /\ ~st.loading

---------------------------------------------------------------------------
(* views/SettingsView.vue: the staging refs and saveSettings *)
(* The refs staged for store fields that stores/settings.ts does not have  *)
(* (saveBatchInSubfolder, plex, tmdb, tvdb, imageQuality, performance) are *)
(* left out.                                                               *)

FormInit ==
    [state |-> "none", views |-> 0, acts |-> 0,
     localTheme |-> "neon", localPosterDensity |-> 20, localSaveLocation |-> "",
     localDefaultLabelsToRemove |-> <<>>, saved |-> "", timers |-> 0]

\* loadLocalSettings: the array is copied, [...array]
LoadLocalSettings(f, st) ==
    [f EXCEPT !.localTheme = st.theme,
              !.localPosterDensity = st.posterDensity,
              !.localSaveLocation = st.saveLocation,
              !.localDefaultLabelsToRemove = st.defaultLabelsToRemove]

\* saveSettings lines 64-68: the staging refs go into the store
ApplyLocal(st, f) ==
    [st EXCEPT !.theme = f.localTheme,
               !.posterDensity = f.localPosterDensity,
               !.saveLocation = f.localSaveLocation,
               !.defaultLabelsToRemove = f.localDefaultLabelsToRemove]

\* Array.from(set) after set.delete(label) / set.add(label)
Without(seq, x) == SelectSeq(seq, LAMBDA y : y # x)

Toggled(seq, label) ==
    IF \E i \in 1..Len(seq) : seq[i] = label
    THEN Without(seq, label)
    ELSE Append(seq, label)

\* lines 91-92: the status text after settings.save() returned
SavedText(st) == IF st.error # Null THEN "Error: " \o st.error ELSE "Saved!"

---------------------------------------------------------------------------
(* Settings requests and the server behind /api/ui-settings *)

\* what the server holds before the session: a full record, or one written
\* by an older version that lacks fields
DbInits ==
    {[theme |-> "light", showBoundingBoxes |-> FALSE, autoSave |-> TRUE,
      posterDensity |-> 50, defaultLabelsToRemove |-> <<"4K">>,
      saveLocation |-> "/posters"],
     [theme |-> "", showBoundingBoxes |-> FALSE, autoSave |-> FALSE,
      posterDensity |-> 0, defaultLabelsToRemove |-> <<>>,
      saveLocation |-> Null]}

DbFresh == CHOOSE d \in DbInits : d.theme = "light"

CfgFreshId(reqs) ==
    CHOOSE i \in 1..(Cardinality(reqs) + 1) : \A r \in reqs : r.id # i

\* no body: a GET on its way out, a response that failed
NoBody == [nil |-> TRUE]

\* fetch(`${apiBase}/api/ui-settings`, ...): kind is load (GET) or save
\* (POST); cont is the code that awaits it, inst the view instance it
\* belongs to (0: none); pre holds the settings as they were when the
\* view's saveSettings was invoked
CfgRequest(reqs, kind, cont, inst, payload, pre) ==
    reqs \cup {[id |-> CfgFreshId(reqs), kind |-> kind, cont |-> cont,
                inst |-> inst, stage |-> "sent", res |-> "none",
                body |-> payload, pre |-> pre]}

CfgRoom == Cardinality(cfgReqs) < MaxCfgInflight

\* the server answers: a GET with what it holds, a POST after storing the body
CfgServe(r) ==
    /\ r.stage = "sent"
    /\ db' = IF r.kind = "save" THEN r.body ELSE db
    /\ cfgReqs' = (cfgReqs \ {r}) \cup
           {[r EXCEPT !.stage = "resp", !.res = "ok",
                      !.body = IF r.kind = "load" THEN db ELSE r.body]}
    /\ UNCHANGED <<settings, form, cfgHist, pollVars, presetVars>>

\* the request fails: fetch rejects, or the server answers non-OK without
\* having stored anything
CfgFail(r) ==
    /\ r.stage = "sent"
    /\ \E res \in {"threw", "notok"} :
           cfgReqs' = (cfgReqs \ {r}) \cup {[r EXCEPT !.stage = "resp", !.res = res]}
    /\ UNCHANGED <<settings, form, db, cfgHist, pollVars, presetVars>>

---------------------------------------------------------------------------
(* The settings store and its form at work *)

\* useSettingsStore() in the setup of a component other than the Settings
\* view (App.vue line 33): a call that finds the store loaded or loading
\* does nothing
UseSettingsStore ==
    /\ MayLoad(settings)
    /\ CfgRoom
    /\ settings' = LoadStarted(settings)
    /\ cfgReqs' = CfgRequest(cfgReqs, "load", "store", 0, NoBody, NoBody)
    /\ cfgHist' = "load"
    /\ UNCHANGED <<form, db, pollVars, presetVars>>

\* the Settings view is created and mounted: useSettingsStore() in setup
\* (line 9), then onMounted (lines 237-244)
CfgViewMount ==
    /\ form.state = "none"
    /\ form.acts < MaxActs
    /\ CfgRoom
    /\ LET pre == NoBody
           st1 == IF MayLoad(settings) THEN LoadStarted(settings) ELSE settings
           rq1 == IF MayLoad(settings)
                  THEN CfgRequest(cfgReqs, "load", "store", 0, NoBody, pre)
                  ELSE cfgReqs
           f1 == [FormInit EXCEPT !.state = "mounted", !.views = form.views + 1,
                                  !.acts = form.acts + 1]
       IN IF MayLoad(st1)
          THEN /\ settings' = LoadStarted(st1)
               /\ cfgReqs' = CfgRequest(rq1, "load", "mount", form.views + 1, NoBody, pre)
               /\ form' = f1
          ELSE /\ settings' = st1
               /\ cfgReqs' = rq1
               /\ form' = LoadLocalSettings(f1, st1)
    /\ cfgHist' = "mount"
    /\ UNCHANGED <<db, pollVars, presetVars>>

\* the Settings view is left; its refs and its watcher go with it
CfgViewUnmount ==
    /\ form.state = "mounted"
    /\ form' = [FormInit EXCEPT !.views = form.views, !.acts = form.acts]
    /\ cfgHist' = "unmount"
    /\ UNCHANGED <<settings, db, cfgReqs, pollVars, presetVars>>

\* the form of the older view (part_002 lines 408-416), bound to the store
ToggleLabelInStore(label) ==
    /\ form.state = "mounted"
    /\ form.acts < MaxActs
    /\ form' = [form EXCEPT !.acts = @ + 1]
    /\ settings' = [settings EXCEPT !.defaultLabelsToRemove = Toggled(@, label)]
    /\ cfgHist' = "edit"
    /\ UNCHANGED <<db, cfgReqs, pollVars, presetVars>>

\* toggleLabel (lines 254-262)
ToggleLabel(label) ==
    /\ form.state = "mounted"
    /\ form.acts < MaxActs
    /\ form' = [form EXCEPT !.acts = @ + 1,
                            !.localDefaultLabelsToRemove = Toggled(@, label)]
    /\ cfgHist' = "edit"
    /\ UNCHANGED <<settings, db, cfgReqs, pollVars, presetVars>>

\* the inputs bound with v-model to a staging ref, and what may be entered
Edits ==
    [localTheme |-> Themes, localPosterDensity |-> Densities,
     localSaveLocation |-> Locations]

\* v-model on localTheme, localPosterDensity, localSaveLocation
EditField(f, v) ==
    /\ form.state = "mounted"
    /\ form.acts < MaxActs
    /\ form[f] # v
    /\ form' = [form EXCEPT !.acts = @ + 1, ![f] = v]
    /\ cfgHist' = "edit"
    /\ UNCHANGED <<settings, db, cfgReqs, pollVars, presetVars>>

\* the Save button: saveSettings of the view up to the fetch inside
\* settings.save()
SaveClick ==
    /\ form.state = "mounted"
    /\ form.acts < MaxActs
    /\ CfgRoom
    /\ LET st1 == ApplyLocal(settings, form)
       IN /\ settings' = SaveStarted(st1)
          /\ cfgReqs' = CfgRequest(cfgReqs, "save", "view", form.views,
                                   Payload(st1), Values(settings))
    /\ form' = [form EXCEPT !.acts = @ + 1]
    /\ cfgHist' = "save"
    /\ UNCHANGED <<db, pollVars, presetVars>>

\* the load request resolved: the rest of loadSettings, then watch(loaded)
\* of a live Settings view, then what awaited settings.load()
LoadDone(r) ==
    /\ r.kind = "load"
    /\ r.stage = "resp"
    /\ cfgReqs' = cfgReqs \ {r}
    /\ settings' = LoadFinished(settings, r.res, r.body)
    /\ form' = IF form.state = "mounted"
                  /\ \/ ~settings.loaded /\ settings'.loaded
                     \/ r.cont = "mount" /\ r.inst = form.views
               THEN LoadLocalSettings(form, settings')
               ELSE form
    /\ cfgHist' = IF r.res = "ok" THEN "loaded" ELSE "loadFailed"
    /\ UNCHANGED <<db, pollVars, presetVars>>

\* the save request resolved: the rest of settings.save(), then lines 91-92
\* of the view that clicked, if it is still there
SaveDone(r) ==
    /\ r.kind = "save"
    /\ r.stage = "resp"
    /\ cfgReqs' = cfgReqs \ {r}
    /\ settings' = SaveFinished(settings, r.res)
    /\ form' = IF form.state = "mounted" /\ r.inst = form.views
               THEN [form EXCEPT !.saved = SavedText(settings'),
                                 !.timers = @ + 1]
               ELSE form
    /\ cfgHist' = IF r.res = "ok" THEN "saved" ELSE "saveFailed"
    /\ UNCHANGED <<db, pollVars, presetVars>>

\* setTimeout(() => (saved.value = ''), 1500)
SavedTimerFire ==
    /\ form.state = "mounted"
    /\ form.timers > 0
    /\ form' = [form EXCEPT !.saved = "", !.timers = @ - 1]
    /\ cfgHist' = "timer"
    /\ UNCHANGED <<settings, db, cfgReqs, pollVars, presetVars>>

---------------------------------------------------------------------------
(* services/presets.ts: usePresetService *)

\* preset requests that may be in flight at the same time
MaxPresetInflight == 2
\* what the user does with the presets in one behaviour: opening the panel
\* or a movie (which loads), a selection, a change of a parameter, a save
MaxPresetActs == 3

\* the templates the server knows, in the order of the keys of its answer
TemplateOrder == <<"default", "uniformlogo">>
TemplateIds == {TemplateOrder[i] : i \in 1..Len(TemplateOrder)}
PresetIds == {"p1", "p2", "p3"}

\* ratios are held in thousandths: 900 is 0.9; the options typed into
\* "Save with JSON"
SavedOptions == {[poster_zoom |-> 800]}

\* {}: an options object without any of the known keys
EmptyOptions == [empty |-> TRUE]

\* the refs of the service, with how often the user has acted on them, what
\* the service did last and the template whose presets it holds
PsvcInit ==
    [templates |-> <<"default">>, presets |-> <<>>,
     selectedTemplate |-> "default", selectedPreset |-> "",
     loading |-> FALSE, error |-> Null, acts |-> 0, did |-> "",
     loadedFor |-> ""]

\* array.includes(x), array.find(p => p.id === id) !== undefined
Includes(seq, x) == \E i \in 1..Len(seq) : seq[i] = x

HasId(list, id) == \E i \in 1..Len(list) : list[i].id = id

Find(list, id) == list[CHOOSE i \in 1..Len(list) : list[i].id = id
                                 /\ \A j \in 1..(i - 1) : list[j].id # id]

\* Object.keys(data): data maps the templates the server knows to their presets
Keys(data) == SelectSeq(TemplateOrder, LAMBDA t : t \in DOMAIN data)

\* load and savePreset, up to the fetch
PBusy(ps) == [ps EXCEPT !.loading = TRUE, !.error = Null, !.did = "fetch"]

\* load that keeps the presets it has
PLoadedKeepsPresets(ps, data) ==
    IF ps.presets # <<>> THEN ps
    ELSE [ps EXCEPT !.templates = Keys(data),
                    !.presets = IF ps.selectedTemplate \in DOMAIN data
                                THEN data[ps.selectedTemplate] ELSE <<>>]

\* load always keeping the selected template
PLoadedKeepsTemplate(ps, data) ==
    LET list == IF ps.selectedTemplate \in DOMAIN data
                THEN data[ps.selectedTemplate] ELSE <<>>
    IN [ps EXCEPT !.templates = IF Keys(data) # <<>> THEN Keys(data)
                                ELSE <<"default">>,
                  !.presets = list,
                  !.selectedPreset = IF HasId(list, ps.selectedPreset) THEN @
                                     ELSE IF list # <<>> THEN list[1].id ELSE ""]

\* load, lines 152-160: the body of GET /api/presets is taken over
PLoaded(ps, data) ==
    LET tplKeys == Keys(data)
        tpls == IF tplKeys # <<>> THEN tplKeys ELSE <<"default">>
        tpl == IF Includes(tplKeys, ps.selectedTemplate) THEN ps.selectedTemplate
               ELSE tpls[1]
        list == IF tpl \in DOMAIN data THEN data[tpl] ELSE <<>>
    IN [ps EXCEPT !.templates = tpls,
                  !.selectedTemplate = tpl,
                  !.presets = list,
                  !.selectedPreset = IF HasId(list, ps.selectedPreset) THEN @
                                     ELSE IF list # <<>> THEN list[1].id ELSE ""]

\* load, after the fetch
PLoadFinished(ps, res, data) ==
    [IF res = "ok" THEN PLoaded(ps, data)
     ELSE [ps EXCEPT !.error = ErrorMessage(res)]
       EXCEPT !.loading = FALSE,
              !.did = IF res = "ok" THEN "loaded" ELSE "loadFailed",
              !.loadedFor = IF res = "ok" THEN PLoaded(ps, data).selectedTemplate
                            ELSE @]

\* a failed save that drops what was loaded
PSaveFailedClears(ps, res) ==
    [ps EXCEPT !.error = ErrorMessage(res), !.loading = FALSE,
               !.did = "saveFailed", !.presets = <<>>, !.selectedPreset = ""]

\* savePreset, after a fetch that failed: catch and finally
PSaveFailed(ps, res) ==
    [ps EXCEPT !.error = ErrorMessage(res), !.loading = FALSE,
               !.did = "saveFailed"]

\* the options savePreset sends (line 177)
PayloadOptions(ps, options) ==
    IF options # NoBody THEN options
    ELSE IF HasId(ps.presets, ps.selectedPreset)
         THEN Find(ps.presets, ps.selectedPreset).options
         ELSE EmptyOptions

---------------------------------------------------------------------------
(* The editor: live parameters seeded from the selected preset *)

\* the ratio options of a preset with the slider each one seeds and the
\* ratio taken when the option is missing, in thousandths
RatioKeys ==
    [poster_zoom |-> [slider |-> "posterZoom", dflt |-> 1000],
     poster_shift_y |-> [slider |-> "posterShiftY", dflt |-> 0],
     matte_height_ratio |-> [slider |-> "matteHeight", dflt |-> 0],
     fade_height_ratio |-> [slider |-> "fadeHeight", dflt |-> 0],
     vignette_strength |-> [slider |-> "vignette", dflt |-> 0],
     grain_amount |-> [slider |-> "grain", dflt |-> 0],
     logo_scale |-> [slider |-> "logoScale", dflt |-> 500],
     logo_offset |-> [slider |-> "logoOffset", dflt |-> 750]]

\* const options = ref({...}), posterFilter, logoPreference, logoMode, logoHex
Params ==
    [posterZoom |-> 100, posterShiftY |-> 0, matteHeight |-> 0, fadeHeight |-> 0,
     vignette |-> 0, grain |-> 0, logoScale |-> 50, logoOffset |-> 75,
     borderEnabled |-> FALSE, borderThickness |-> 0, borderColor |-> "#ffffff",
     overlayFile |-> "", overlayOpacity |-> 40, overlayMode |-> "screen",
     posterFilter |-> "all", logoPreference |-> "first",
     logoMode |-> "original", logoHex |-> "#ffffff"]

\* the editor: its live parameters, the options of the preset that seeded
\* them if none was changed since, and the options payload of the last
\* render call
EditorInit == [params |-> Params, seed |-> NoBody, sent |-> NoBody]

Has(o, k) == k \in DOMAIN o

\* Math.round(x * 100) of a ratio held in thousandths
Percent(x) == (x + 5) \div 10

\* Number(o[k]) || dflt: a missing option and 0 both give dflt
NumberOr(o, k, dflt) == IF Has(o, k) /\ o[k] # 0 THEN o[k] ELSE dflt

\* if (o[k]) ref = String(o[k]): a missing or empty option keeps the ref
StringOr(o, k, kept) == IF Has(o, k) /\ o[k] # "" THEN o[k] ELSE kept

\* the callback of watch(selectedPreset), lines 472-497
Seeded(e, list, id) ==
    IF ~HasId(list, id) THEN e
    ELSE LET o == Find(list, id).options
         IN [e EXCEPT
               !.posterZoom = Percent(NumberOr(o, "poster_zoom", 1000)),
               !.posterShiftY = Percent(NumberOr(o, "poster_shift_y", 0)),
               !.matteHeight = Percent(NumberOr(o, "matte_height_ratio", 0)),
               !.fadeHeight = Percent(NumberOr(o, "fade_height_ratio", 0)),
               !.vignette = Percent(NumberOr(o, "vignette_strength", 0)),
               !.grain = Percent(NumberOr(o, "grain_amount", 0)),
               !.logoScale = Percent(NumberOr(o, "logo_scale", 500)),
               !.logoOffset = Percent(NumberOr(o, "logo_offset", 750)),
               !.borderEnabled = Has(o, "border_enabled") /\ o.border_enabled,
               !.borderThickness = NumberOr(o, "border_px", 0),
               !.borderColor = StringOr(o, "border_color", @),
               !.overlayFile = StringOr(o, "overlay_file", @),
               !.overlayOpacity = IF Has(o, "overlay_opacity")
                                  THEN Percent(o.overlay_opacity) ELSE @,
               !.overlayMode = StringOr(o, "overlay_mode", @),
               !.posterFilter =
                   IF Has(o, "poster_filter")
                      /\ o.poster_filter \in {"all", "textless", "text"}
                   THEN o.poster_filter ELSE @,
               !.logoPreference =
                   IF Has(o, "logo_preference")
                      /\ o.logo_preference \in {"first", "white", "color"}
                   THEN o.logo_preference ELSE @]

\* watch(selectedPreset, ...) runs its callback when the selected id changed
Watched(ed, before, after) ==
    IF after.selectedPreset # before.selectedPreset
    THEN [ed EXCEPT !.params = Seeded(@, after.presets, after.selectedPreset),
                    !.seed = IF HasId(after.presets, after.selectedPreset)
                             THEN Find(after.presets, after.selectedPreset).options
                             ELSE @]
    ELSE ed

\* optionsPayload (lines 439-458): a percentage / 100 is a ratio, here in
\* thousandths
OptionsPayload(e) ==
    [poster_zoom |-> e.posterZoom * 10,
     poster_shift_y |-> e.posterShiftY * 10,
     matte_height_ratio |-> e.matteHeight * 10,
     fade_height_ratio |-> e.fadeHeight * 10,
     vignette_strength |-> e.vignette * 10,
     grain_amount |-> e.grain * 10,
     logo_scale |-> e.logoScale * 10,
     logo_offset |-> e.logoOffset * 10,
     border_enabled |-> e.borderEnabled,
     border_px |-> e.borderThickness,
     border_color |-> e.borderColor,
     overlay_file |-> IF e.overlayFile = "" THEN Null ELSE e.overlayFile,
     overlay_opacity |-> e.overlayOpacity * 10,
     overlay_mode |-> e.overlayMode,
     logo_mode |-> e.logoMode,
     logo_hex |-> e.logoHex,
     poster_filter |-> e.posterFilter,
     logo_preference |-> e.logoPreference]

---------------------------------------------------------------------------
(* Preset requests and the server behind /api/presets *)

\* the presets table: rows (template_id, id, options) with id as primary key
\* and (template_id, id) unique, held as the list of presets per template
Preset(id, options) == [id |-> id, options |-> options]

\* options that name every known key, the ratios all at v
FullOptions(v) ==
    [poster_zoom |-> v, poster_shift_y |-> v, matte_height_ratio |-> v,
     fade_height_ratio |-> v, vignette_strength |-> v, grain_amount |-> v,
     logo_scale |-> v, logo_offset |-> v, border_enabled |-> TRUE,
     border_px |-> 4, border_color |-> "#000000", overlay_file |-> "grain.png",
     overlay_opacity |-> v, overlay_mode |-> "multiply",
     poster_filter |-> "textless", logo_preference |-> "white"]

\* options that name the ratios only, all at v
RatioOptions(v) == [k \in DOMAIN RatioKeys |-> v]

\* what the server holds before the session: both templates with presets,
\* or a server that does not know the template "default"
PdbInits ==
    {[default |-> <<Preset("p1", FullOptions(900)), Preset("p2", RatioOptions(0))>>,
      uniformlogo |-> <<Preset("p3", RatioOptions(250))>>],
     [default |-> <<Preset("p1", RatioOptions(500)), Preset("p2", EmptyOptions)>>,
      uniformlogo |-> <<>>],
     [uniformlogo |-> <<Preset("p3", FullOptions(800))>>]}

\* the presets of a template without the one named id
Others(list, id) == SelectSeq(list, LAMBDA x : x.id # id)

\* the row (t, id) is written: its options are replaced, or it is appended
Upsert(data, t, id, options) ==
    [data EXCEPT ![t] =
        IF HasId(@, id)
        THEN [i \in 1..Len(@) |-> IF @[i].id = id THEN Preset(id, options) ELSE @[i]]
        ELSE Append(@, Preset(id, options))]

\* the row with this id leaves every other template (REPLACE on the primary key)
Moved(data, t, id) ==
    [u \in DOMAIN data |-> IF u = t THEN data[u] ELSE Others(data[u], id)]

\* the primary key: the id is held by a row of another template
Conflict(data, t, id) == \E u \in DOMAIN data \ {t} : HasId(data[u], id)

PFreshId(reqs) ==
    CHOOSE i \in 1..(Cardinality(reqs) + 1) : \A r \in reqs : r.id # i

\* fetch(...): kind is load (GET /api/presets) or save (POST
\* /api/presets/save); cause is the save that a load was called by (line
\* 185), seen the last save the server had stored when it answered
PRequest(reqs, kind, payload, cause) ==
    reqs \cup {[id |-> PFreshId(reqs), kind |-> kind, stage |-> "sent",
                res |-> "none", body |-> payload, cause |-> cause,
                seen |-> NoBody]}

PRoom == Cardinality(preqs) < MaxPresetInflight

\* the server answers a GET with the templates and their presets
PServeLoad(r) ==
    /\ r.kind = "load"
    /\ r.stage = "sent"
    /\ preqs' = (preqs \ {r}) \cup
           {[r EXCEPT !.stage = "resp", !.res = "ok", !.body = pdb.data,
                      !.seen = pdb.last]}
    /\ UNCHANGED <<psvc, pdb, editor, pollVars, settingsVars>>

\* the server stores the preset of a POST; an id that a row of another
\* template holds makes the insert fail or replace that row
PServeSave(r) ==
    /\ r.kind = "save"
    /\ r.stage = "sent"
    /\ r.body.template_id \in DOMAIN pdb.data
    /\ LET t == r.body.template_id
           id == r.body.preset_id
           last == [template_id |-> t, preset_id |-> id,
                    options |-> r.body.options,
                    before |-> pdb.data]
       IN \/ /\ pdb' = [data |-> Upsert(Moved(pdb.data, t, id), t, id,
                                        r.body.options),
                        last |-> last]
             /\ preqs' = (preqs \ {r}) \cup
                    {[r EXCEPT !.stage = "resp", !.res = "ok"]}
          \/ /\ Conflict(pdb.data, t, id)
             /\ pdb' = pdb
             /\ preqs' = (preqs \ {r}) \cup
                    {[r EXCEPT !.stage = "resp", !.res = "conflict"]}
    /\ UNCHANGED <<psvc, editor, pollVars, settingsVars>>

\* the request fails: fetch rejects, or the server answers non-OK without
\* having stored anything
PFail(r) ==
    /\ r.stage = "sent"
    /\ \E res \in {"threw", "notok"} :
           preqs' = (preqs \ {r}) \cup {[r EXCEPT !.stage = "resp", !.res = res]}
    /\ UNCHANGED <<psvc, pdb, editor, pollVars, settingsVars>>

---------------------------------------------------------------------------
(* The preset service at work *)

\* load(), called by the owner of the service (PresetPanel.vue line 23, the
\* editor when the movie changes), up to the fetch
PLoad ==
    /\ psvc.acts < MaxPresetActs
    /\ PRoom
    /\ psvc' = [PBusy(psvc) EXCEPT !.acts = @ + 1]
    /\ preqs' = PRequest(preqs, "load", NoBody, NoBody)
    /\ UNCHANGED <<pdb, editor, pollVars, settingsVars>>

\* load(), after the fetch
PLoadDone(r) ==
    /\ r.kind = "load"
    /\ r.stage = "resp"
    /\ preqs' = preqs \ {r}
    /\ psvc' = PLoadFinished(psvc, r.res, r.body)
    /\ editor' = Watched(editor, psvc, psvc')
    /\ UNCHANGED <<pdb, pollVars, settingsVars>>

\* <select v-model="selectedPreset">: one of the loaded presets is chosen
PSelectPreset(id) ==
    /\ psvc.acts < MaxPresetActs
    /\ HasId(psvc.presets, id)
    /\ id # psvc.selectedPreset
    /\ psvc' = [psvc EXCEPT !.selectedPreset = id, !.acts = @ + 1]
    /\ editor' = Watched(editor, psvc, psvc')
    /\ UNCHANGED <<pdb, preqs, pollVars, settingsVars>>

\* the controls of the editor that the user may move, and where to
Tweaks == [posterZoom |-> {55}, borderColor |-> {"#ff0000"}]

\* a slider or field of the editor is changed by hand
EditParam(f, v) ==
    /\ psvc.acts < MaxPresetActs
    /\ editor.params[f] # v
    /\ editor' = [editor EXCEPT !.params[f] = v, !.seed = NoBody]
    /\ psvc' = [psvc EXCEPT !.acts = @ + 1]
    /\ UNCHANGED <<pdb, preqs, pollVars, settingsVars>>

\* doPreview: the options payload goes out with a render call
Render ==
    /\ editor.sent # OptionsPayload(editor.params)
    /\ editor' = [editor EXCEPT !.sent = OptionsPayload(editor.params)]
    /\ UNCHANGED <<psvc, pdb, preqs, pollVars, settingsVars>>

\* <select v-model="selectedTemplate">: one of the templates is chosen
PSelectTemplate(t) ==
    /\ psvc.acts < MaxPresetActs
    /\ Includes(psvc.templates, t)
    /\ t # psvc.selectedTemplate
    /\ psvc' = [psvc EXCEPT !.selectedTemplate = t, !.acts = @ + 1]
    /\ UNCHANGED <<pdb, preqs, editor, pollVars, settingsVars>>

\* savePreset(options), up to the fetch; the buttons are disabled while loading
PSavePreset(options) ==
    /\ psvc.acts < MaxPresetActs
    /\ ~psvc.loading
    /\ psvc.selectedTemplate # ""
    /\ psvc.selectedPreset # ""
    /\ PRoom
    /\ preqs' = PRequest(preqs, "save",
                         [template_id |-> psvc.selectedTemplate,
                          preset_id |-> psvc.selectedPreset,
                          options |-> PayloadOptions(psvc, options)],
                         NoBody)
    /\ psvc' = [PBusy(psvc) EXCEPT !.acts = @ + 1]
    /\ UNCHANGED <<pdb, editor, pollVars, settingsVars>>

\* savePreset, after the fetch: a stored preset is followed by load() (line
\* 185), a failure by catch and finally
PSaveDone(r) ==
    /\ r.kind = "save"
    /\ r.stage = "resp"
    /\ IF r.res = "ok"
       THEN /\ psvc' = PBusy(psvc)
            /\ preqs' = PRequest(preqs \ {r}, "load", NoBody, r.body)
       ELSE /\ psvc' = PSaveFailed(psvc, r.res)
            /\ preqs' = preqs \ {r}
    /\ UNCHANGED <<pdb, editor, pollVars, settingsVars>>

---------------------------------------------------------------------------
(* components/BatchEditModal.vue: the batch dialog, its requests and the    *)
(* notifications of composables/useNotification.ts.  selectedPreset and     *)
(* autoRemoveLabels only fill the payload and are left out.                 *)

\* user actions on the dialog in one behaviour
MaxModalActs == 4

\* props.movies: the keys of the movies handed to the dialog
Movies == {"m1", "m2"}

\* const selectedTemplate = ref(""), checkedMovies = ref(new Set()), ...;
\* intervals, closeTimers: the progress intervals and close timeouts pending;
\* notes: notifications.value; acts, did: the user actions so far and the
\* handler that ran last
ModalInit ==
    [isOpen |-> FALSE, checkedMovies |-> {}, selectedTemplate |-> "",
     templates |-> <<>>, isSending |-> FALSE, currentIndex |-> 0,
     intervals |-> {}, closeTimers |-> 0, reqs |-> {}, notes |-> <<>>,
     acts |-> 0, did |-> ""]

\* show(message, type): nextId++, notifications.value.push(...)
Show(notes, type, message) ==
    LET id == CHOOSE i \in 1..(Len(notes) + 1) :
                  \A k \in 1..Len(notes) : notes[k].id # i
    IN  Append(notes, [id |-> id, type |-> type, message |-> message])

\* remove(id)
Removed(notes, id) == SelectSeq(notes, LAMBDA n : n.id # id)

\* fetch(...): a request of the dialog leaves the client; interval: the
\* progress interval of the sendBatch call that waits for it (0: none)
ModalRequest(reqs, kind, payload, interval) ==
    reqs \cup {[id |-> CHOOSE i \in 1..(Cardinality(reqs) + 1) :
                           \A r \in reqs : r.id # i,
                kind |-> kind, stage |-> "sent", res |-> "none",
                payload |-> payload, body |-> NoBody, interval |-> interval]}

\* the else branch of watch(() => props.isOpen)
ModalClosed(m) ==
    [m EXCEPT !.isOpen = FALSE, !.checkedMovies = {}, !.selectedTemplate = ""]

\* the parent opens the dialog; watch(() => props.isOpen) loads the templates
\* and checks every movie
ModalOpen ==
    /\ modal.acts < MaxModalActs /\ ~modal.isOpen
    /\ modal' = [modal EXCEPT !.isOpen = TRUE, !.checkedMovies = Movies,
                              !.reqs = ModalRequest(@, "presets", NoBody, 0),
                              !.acts = @ + 1, !.did = "open"]
    /\ UNCHANGED <<op, scan, opHist, scanHist, srv, app, sv, inflight, polls,
                   settingsVars, presetVars>>

\* closeModal: emit("close"), the parent closes the dialog, the watch clears
ModalClose ==
    /\ modal.acts < MaxModalActs /\ modal.isOpen
    /\ modal' = [ModalClosed(modal) EXCEPT !.acts = @ + 1, !.did = "close"]
    /\ UNCHANGED <<op, scan, opHist, scanHist, srv, app, sv, inflight, polls,
                   settingsVars, presetVars>>

ToggleMovie(key) ==
    /\ modal.acts < MaxModalActs /\ modal.isOpen
    /\ modal' = [modal EXCEPT
                   !.checkedMovies = IF key \in @ THEN @ \ {key} ELSE @ \cup {key},
                   !.acts = @ + 1, !.did = "toggle"]
    /\ UNCHANGED <<op, scan, opHist, scanHist, srv, app, sv, inflight, polls,
                   settingsVars, presetVars>>

\* <select v-model="selectedTemplate">: "" or one of the loaded templates
ModalSelectTemplate(t) ==
    /\ modal.acts < MaxModalActs /\ modal.isOpen
    /\ t # modal.selectedTemplate
    /\ t = "" \/ \E i \in 1..Len(modal.templates) : modal.templates[i].id = t
    /\ modal' = [modal EXCEPT !.selectedTemplate = t,
                              !.acts = @ + 1, !.did = "select"]
    /\ UNCHANGED <<op, scan, opHist, scanHist, srv, app, sv, inflight, polls,
                   settingsVars, presetVars>>

\* the payload of POST /api/batch
BatchPayload(m) ==
    [rating_keys |-> m.checkedMovies, template_id |-> m.selectedTemplate]

\* a sendBatch whose check comes after isSending is set
SendBatchRefusedLate(m) ==
    [m EXCEPT !.isSending = TRUE, !.currentIndex = 0,
              !.notes = Show(@, "error", "Please select movies and a template")]

\* sendBatch with no movie checked or no template: error(...); return
SendBatchRefused(m) ==
    [m EXCEPT !.notes = Show(@, "error", "Please select movies and a template")]

\* sendBatch up to its await fetch("/api/batch", ...)
SendBatchStarted(m) ==
    LET id == FreshTimer(m.intervals)
    IN  [m EXCEPT !.isSending = TRUE, !.currentIndex = 0,
                  !.intervals = @ \cup {id},
                  !.reqs = ModalRequest(@, "batch", BatchPayload(m), id)]

\* sendBatch is called: by the Send button, which is disabled when nothing is
\* checked, no template is selected or a batch is being sent, or by another
\* caller when the selection is not valid
SendBatch ==
    /\ modal.acts < MaxModalActs /\ modal.isOpen
    /\ IF modal.checkedMovies = {} \/ modal.selectedTemplate = ""
       THEN modal' = [SendBatchRefused(modal) EXCEPT
                        !.acts = @ + 1, !.did = "sendBatch"]
       ELSE /\ ~modal.isSending
            /\ modal' = [SendBatchStarted(modal) EXCEPT
                           !.acts = @ + 1, !.did = "sendBatch"]
    /\ UNCHANGED <<op, scan, opHist, scanHist, srv, app, sv, inflight, polls,
                   settingsVars, presetVars>>

\* the 300 ms interval that simulates progress; it clears itself at the end
ProgressTick(id) ==
    /\ id \in modal.intervals
    /\ LET size == Cardinality(modal.checkedMovies)
           next == Min(modal.currentIndex + 1, size)
       IN  modal' = [modal EXCEPT
                       !.currentIndex = next,
                       !.intervals = IF next >= size THEN @ \ {id} ELSE @,
                       !.did = "tick"]
    /\ UNCHANGED <<op, scan, opHist, scanHist, srv, app, sv, inflight, polls,
                   settingsVars, presetVars>>

\* the bodies GET /api/presets may answer with: the templates and presets
\* this dialog reads, or the mapping of template ids
ModalBodies ==
    {[templates |-> <<[id |-> "default", name |-> "Default"]>>, presets |-> <<>>],
     [default |-> [presets |-> <<>>]]}

\* the server answers a request of the dialog
ModalServe(r) ==
    /\ r \in modal.reqs /\ r.stage = "sent"
    /\ \E res \in {"ok", "notok"} :
       \E body \in (IF r.kind = "presets" THEN ModalBodies ELSE {NoBody}) :
          modal' = [modal EXCEPT
                      !.reqs = (@ \ {r}) \cup
                           {[r EXCEPT !.stage = "resp", !.res = res, !.body = body]}]
    /\ UNCHANGED <<op, scan, opHist, scanHist, srv, app, sv, inflight, polls,
                   settingsVars, presetVars>>

\* a request of the dialog fails in transport
ModalFail(r) ==
    /\ r \in modal.reqs /\ r.stage = "sent"
    /\ modal' = [modal EXCEPT
                   !.reqs = (@ \ {r}) \cup
                        {[r EXCEPT !.stage = "resp", !.res = "threw"]}]
    /\ UNCHANGED <<op, scan, opHist, scanHist, srv, app, sv, inflight, polls,
                   settingsVars, presetVars>>

\* the rest of loadTemplatesAndPresets; response.ok is not looked at
ModalLoadDone(r) ==
    /\ r \in modal.reqs /\ r.stage = "resp" /\ r.kind = "presets"
    /\ modal' = [modal EXCEPT
                   !.reqs = @ \ {r},
                   !.templates = IF r.res = "threw" THEN @
                                 ELSE IF "templates" \in DOMAIN r.body
                                 THEN r.body.templates ELSE <<>>,
                   !.notes = IF r.res = "threw"
                             THEN Show(@, "error", "Error loading templates and presets")
                             ELSE @,
                   !.did = "loaded"]
    /\ UNCHANGED <<op, scan, opHist, scanHist, srv, app, sv, inflight, polls,
                   settingsVars, presetVars>>

\* the rest of sendBatch, once its fetch has resolved; a fetch that throws
\* skips clearInterval(progressInterval)
BatchDone(r) ==
    /\ r \in modal.reqs /\ r.stage = "resp" /\ r.kind = "batch"
    /\ LET size == Cardinality(modal.checkedMovies)
           m == [modal EXCEPT !.reqs = @ \ {r}, !.did = "sent"]
           cleared == [m EXCEPT !.intervals = @ \ {r.interval},
                                !.currentIndex = size]
       IN  modal' =
             IF r.res = "threw"
             THEN [m EXCEPT !.isSending = FALSE,
                            !.notes = Show(@, "error", "Batch send failed")]
             ELSE IF r.res = "notok"
             THEN [cleared EXCEPT !.isSending = FALSE,
                                  !.notes = Show(@, "error", "Batch send failed")]
             ELSE [cleared EXCEPT !.closeTimers = @ + 1,
                                  !.notes = Show(@, "success", "Successfully sent")]
    /\ UNCHANGED <<op, scan, opHist, scanHist, srv, app, sv, inflight, polls,
                   settingsVars, presetVars>>

\* the 1500 ms timeout after a successful send: closeModal(), then the resets
CloseTimerFire ==
    /\ modal.closeTimers > 0
    /\ modal' = [ModalClosed(modal) EXCEPT !.closeTimers = @ - 1,
                                           !.isSending = FALSE, !.did = "timer"]
    /\ UNCHANGED <<op, scan, opHist, scanHist, srv, app, sv, inflight, polls,
                   settingsVars, presetVars>>

\* the timeout of show(): remove(id)
NoteExpire(id) ==
    /\ \E k \in 1..Len(modal.notes) : modal.notes[k].id = id
    /\ modal' = [modal EXCEPT !.notes = Removed(@, id)]
    /\ UNCHANGED <<op, scan, opHist, scanHist, srv, app, sv, inflight, polls,
                   settingsVars, presetVars>>

---------------------------------------------------------------------------
(* The client session: App.vue, the Settings view and the server *)

\* the status side of the client and the batch dialog before the session
ClientInit ==
    /\ op = OpInit
    /\ scan = ScanInit
    /\ opHist = HistInit
    /\ scanHist = HistInit
    /\ app = [state |-> "setup", scan |-> NoPoller, batch |-> NoPoller]
    /\ sv = [state |-> "none", scan |-> NoPoller, failTimers |-> 0]
    /\ inflight = {}
    /\ polls = [appScan |-> Started(0), appBatch |-> Started(0),
                svScan |-> Started(0),
                failed |-> ""]   \* the poll resolved last, when it had failed
    /\ modal = ModalInit

PollInit ==
    /\ ClientInit
    /\ srv = [scan |-> SrvIdle, batch |-> SrvIdle, runs |-> 0]

\* the configuration side before the session, over what the server holds
CfgInit ==
    /\ settings = SettingsInit
    /\ form = FormInit
    /\ db \in DbInits
    /\ cfgReqs = {}
    /\ cfgHist = ""

\* the preset side before the session, over what the server holds
PresetInit ==
    /\ psvc = PsvcInit
    /\ pdb \in [data : PdbInits, last : {NoBody}]
    /\ preqs = {}
    /\ editor = EditorInit

PdbFresh == CHOOSE d \in PdbInits : DOMAIN d = TemplateIds /\ d.uniformlogo # <<>>

Init ==
    /\ PollInit
    /\ CfgInit
    /\ db = DbFresh
    /\ PresetInit
    /\ pdb.data = PdbFresh

Server ==
    \/ \E k \in Kinds : SrvStart(k)
    \/ \E k \in Kinds : SrvSetTotal(k)
    \/ \E k \in Kinds : SrvItem(k)
    \/ \E k \in Kinds : SrvFinish(k)
    \/ \E k \in Kinds : SrvFail(k)
    \/ \E r \in inflight : SrvRespond(r)
    \/ \E r \in inflight : SrvScanLibrary(r)
    \/ \E r \in inflight : NetFail(r)

Next ==
    \/ Server
    \/ AppMount
    \/ AppUnmount
    \/ AppScanTick
    \/ AppBatchTick
    \/ \E r \in inflight : FetchScanStatusDone(r)
    \/ \E r \in inflight : FetchBatchStatusDone(r)
    \/ \E r \in inflight : AppScanPollDone(r)
    \/ \E r \in inflight : AppBatchPollDone(r)
    \/ OpHideFire
    \/ ScanHideFire
    \/ SvMount
    \/ SvUnmount
    \/ ScanLibrary
    \/ SvScanTick
    \/ SvFailTimerFire
    \/ \E r \in inflight : ScanLibraryDone(r)
    \/ \E r \in inflight : SvScanPollDone(r)

Spec == Init /\ [][Next]_vars


---------------------------------------------------------------------------
(* The operationStatus store on its own: any caller, any snapshot *)

\* response bodies of GET /api/batch-progress, a body without fields that
\* matter ({}), and a null body
BatchStatuses ==
    [state : States, processed : 0..MaxItems, total : 0..MaxItems,
     current_movie : {"", "movie"}, current_step : {"", "rendering"},
     error : {Null, "unreachable"}]
      \cup {[ok |-> TRUE], NoStatus}

OpApplyCall ==
    /\ \E status \in BatchStatuses : \E t \in Kinds : OpApply(status, t)
    /\ UNCHANGED <<scan, scanHist, srv, app, sv, inflight, polls, cfgVars>>

NextOp ==
    \/ OpApplyCall
    \/ OpResetCall
    \/ OpHideFire

SpecOp == Init /\ [][NextOp]_vars

---------------------------------------------------------------------------
(* The scan started from the Settings view, with the scan poller of App.vue. *)
(* Scans of other clients are those that run when the session starts.        *)

InitScan ==
    /\ ClientInit
    /\ srv \in {[scan |-> snap, batch |-> SrvIdle, runs |-> 0] :
                   snap \in {SrvIdle, SrvRunning}}
    /\ CfgInit
    /\ db = DbFresh
    /\ PresetInit
    /\ pdb.data = PdbFresh

NextScan ==
    \/ SrvSetTotal("scan")
    \/ SrvItem("scan")
    \/ SrvFinish("scan")
    \/ SrvFail("scan")
    \/ \E r \in inflight : SrvRespond(r)
    \/ \E r \in inflight : SrvScanLibrary(r)
    \/ \E r \in inflight : NetFail(r)
    \/ AppMount
    \/ AppScanTick
    \/ \E r \in inflight : FetchScanStatusDone(r)
    \/ \E r \in inflight : FetchBatchStatusDone(r)
    \/ \E r \in inflight : AppScanPollDone(r)
    \/ ScanHideFire
    \/ SvMount
    \/ ScanLibrary
    \/ ScanLibraryRefused
    \/ SvScanTick
    \/ SvFailTimerFire
    \/ \E r \in inflight : ScanLibraryDone(r)
    \/ \E r \in inflight : SvScanPollDone(r)

SpecScan == InitScan /\ [][NextScan]_vars

---------------------------------------------------------------------------
(* The scan store on its own: any caller, any snapshot *)

\* response bodies of GET /api/scan-progress, a body without fields that
\* matter ({}), and a null body
ScanStatuses ==
    [state : States, processed : 0..MaxItems, total : 0..MaxItems,
     current : {"", "movie"}, log : {<<>>, <<"movie">>},
     finished_at : {Null, "t"}]
      \cup {[ok |-> TRUE], NoStatus}

ScanApplyCall ==
    /\ \E status \in ScanStatuses : ScanApply(status)
    /\ UNCHANGED <<op, opHist, srv, app, sv, inflight, polls, cfgVars>>

NextScanStore ==
    \/ ScanApplyCall
    \/ ScanResetCall
    \/ ScanHideFire

SpecScanStore == Init /\ [][NextScanStore]_vars

---------------------------------------------------------------------------
(* The settings store, the Settings view's form and the server behind them *)

InitSettings ==
    /\ PollInit
    /\ CfgInit
    /\ PresetInit
    /\ pdb.data = PdbFresh

NextSettings ==
    \/ UseSettingsStore
    \/ CfgViewMount
    \/ CfgViewUnmount
    \/ \E label \in LabelNames : ToggleLabel(label)
    \/ \E f \in DOMAIN Edits : \E v \in Edits[f] : EditField(f, v)
    \/ SaveClick
    \/ SavedTimerFire
    \/ \E r \in cfgReqs : CfgServe(r)
    \/ \E r \in cfgReqs : CfgFail(r)
    \/ \E r \in cfgReqs : LoadDone(r)
    \/ \E r \in cfgReqs : SaveDone(r)

SpecSettings == InitSettings /\ [][NextSettings]_vars

---------------------------------------------------------------------------
(* The preset service, its editor and the server behind them *)

InitPresets ==
    /\ PollInit
    /\ CfgInit
    /\ db = DbFresh
    /\ PresetInit

NextPresets ==
    \/ PLoad
    \/ \E t \in TemplateIds : PSelectTemplate(t)
    \/ \E id \in PresetIds : PSelectPreset(id)
    \/ \E options \in SavedOptions \cup {NoBody} : PSavePreset(options)
    \/ \E f \in DOMAIN Tweaks : \E v \in Tweaks[f] : EditParam(f, v)
    \/ Render
    \/ \E r \in preqs : PServeLoad(r)
    \/ \E r \in preqs : PServeSave(r)
    \/ \E r \in preqs : PFail(r)
    \/ \E r \in preqs : PLoadDone(r)
    \/ \E r \in preqs : PSaveDone(r)

SpecPresets == InitPresets /\ [][NextPresets]_vars


---------------------------------------------------------------------------
(* The batch dialog with its requests *)

NextBatch ==
    \/ ModalOpen
    \/ ModalClose
    \/ \E key \in Movies : ToggleMovie(key)
    \/ \E t \in {"", "default"} : ModalSelectTemplate(t)
    \/ SendBatch
    \/ \E id \in modal.intervals : ProgressTick(id)
    \/ CloseTimerFire
    \/ \E id \in 1..MaxModalActs : NoteExpire(id)
    \/ \E r \in modal.reqs : ModalServe(r)
    \/ \E r \in modal.reqs : ModalFail(r)
    \/ \E r \in modal.reqs : ModalLoadDone(r)
    \/ \E r \in modal.reqs : BatchDone(r)

SpecBatch == Init /\ [][NextBatch]_vars

---------------------------------------------------------------------------
(* Claims about the operationStatus store *)

\* C1: as long as no running snapshot has been applied since the initial state
\* or the last reset(), whatever done, error or idle snapshots were applied,
\* the overlay is hidden and no hide timer is pending.
C1_NoStaleCompletion ==
    ~opHist.runSeen => (~op.visible /\ op.timers = {})

\* a done snapshot was applied to a store that never saw running
C1_Witness ==
    /\ opHist.kind = "apply" /\ opHist.st = "done" /\ ~opHist.runSeen
    /\ op.state = "done" /\ ~op.visible

\* C2: when the last snapshot applied (since init or reset) is a running one,
\* no hide timer is pending and the overlay is visible, whatever timer was
\* pending when that snapshot arrived.
C2_RunningCancelsHide ==
    opHist.st = "running" => (op.timers = {} /\ op.hideTimer = 0 /\ op.visible)

\* a running snapshot arrived while the hide timer of a completion was pending
C2_Witness ==
    /\ opHist.kind = "apply" /\ opHist.st = "running" /\ opHist.preTimer
    /\ op.visible /\ op.timers = {}

\* C3: after applyStatus(running) the store shows visible and state running;
\* after a following applyStatus(done) it is still visible, with the progress
\* of the done snapshot and the hide timer pending; once a hide timer has
\* fired the overlay is hidden and currentMovie and currentStep are empty.
C3_RunningDoneHide ==
    /\ (opHist.kind = "apply" /\ opHist.st = "running")
         => (op.visible /\ op.state = "running")
    /\ (opHist.kind = "apply" /\ opHist.st = "done" /\ opHist.preRunning)
         => (op.visible /\ op.state = "done" /\ op.progress = opHist.progress
             /\ Cardinality(op.timers) = 1)
    /\ opHist.kind = "hide"
         => (~op.visible /\ op.currentMovie = "" /\ op.currentStep = "")

\* running, then done, then the hide timer fired
C3_Witness ==
    /\ opHist.kind = "hide" /\ opHist.st = "done" /\ opHist.preRunning
    /\ opHist.progress.total = MaxItems /\ op.progress = opHist.progress
    /\ ~op.visible

\* C5: right after reset() every field has its initial value and no timer is
\* pending (so no timer callback can follow), and a second reset() changes
\* nothing.
C5_ResetRestoresInit ==
    opHist.kind = "reset" => (op = OpInit /\ OpReset(op) = op)

\* reset() was called while a hide timer was pending
C5_Witness ==
    opHist.kind = "reset" /\ opHist.preTimer /\ op = OpInit


---------------------------------------------------------------------------
(* Claims about the pollers and the overlays they feed *)

PollSources == {"appScanPoll", "appBatchPoll", "svScanPoll"}

\* the poller whose interval callback issued a request of source src
PollerOf(src) ==
    CASE src = "appScanPoll"  -> app.scan
      [] src = "appBatchPoll" -> app.batch
      [] src = "svScanPoll"   -> sv.scan

\* C4: in both stores, an error snapshot applied to a client that has seen the
\* run (activeRunStarted set) counts as a completion: the overlay stays
\* visible, exactly one hide timer is pending and activeRunStarted is cleared.
C4_ErrorIsCompletion ==
    /\ (opHist.kind = "apply" /\ opHist.st = "error" /\ opHist.preArs)
         => (op.visible /\ Cardinality(op.timers) = 1 /\ ~op.activeRunStarted)
    /\ (scanHist.kind = "apply" /\ scanHist.st = "error" /\ scanHist.preArs)
         => (scan.visible /\ Cardinality(scan.timers) = 1
             /\ ~scan.activeRunStarted)

\* C6: when a poll of an interval poller resolves as a failure (fetch threw,
\* or the response was not OK), no field of either store changes and no
\* poller is stopped or started: its interval stays live.
C6_FailedPollIgnored ==
    [][\A r \in inflight :
         (r.src \in PollSources /\ r.stage = "resp" /\ r.res # "ok"
            /\ r \notin inflight')
           => (op' = op /\ scan' = scan /\ app' = app /\ sv' = sv)]_vars

\* a batch poll failed while the overlay showed the running job; the poller
\* is still live
C6_Witness ==
    /\ polls.failed = "appBatchPoll"
    /\ app.batch.live # {}
    /\ op.visible /\ op.state = "running"

\* C7 as stated: a poller stops itself only on a done/error snapshot that
\* follows an earlier terminal snapshot.
C7_StopsOnlyWhenConfirmed ==
    \A p \in Pollers : polls[p].stop # "first"

\* C7 as amended: a poller stops itself on every successfully received
\* snapshot whose state is not running (the first one included) and on no
\* running snapshot; and a poll request is issued only by a poller whose
\* interval is live, or by the start of the batch poller.
C7_SelfStopOnFirstNonRunning ==
    [][/\ \A r \in inflight :
            (r.src \in PollSources /\ r.stage = "resp" /\ r.res = "ok"
               /\ r \notin inflight')
              => PollerOf(r.src)' = IF r.body.state = "running"
                                    THEN PollerOf(r.src)
                                    ELSE StopPoller(PollerOf(r.src))
       /\ \A r \in inflight' \ inflight :
            (r.src \in PollSources /\ r.stage = "sent")
              => (PollerOf(r.src).live # {}
                    \/ (r.src = "appBatchPoll" /\ app'.batch.live # {}))]_vars

\* the batch poller stopped itself on the first done snapshot it received,
\* which has just been shown as the completion
C7_Witness ==
    /\ polls.appBatch.stop = "first" /\ polls.appBatch.termSeen
    /\ app.batch = NoPoller
    /\ op.state = "done" /\ op.visible

\* C8 as stated: every poller has issued one fetch at its start and one per
\* interval tick since.
C8_ImmediateFetchEveryPoller ==
    /\ app.batch.live # {} => polls.appBatch.fetches = polls.appBatch.ticks + 1
    /\ app.scan.live # {} => polls.appScan.fetches = polls.appScan.ticks + 1
    /\ sv.scan.live # {} => polls.svScan.fetches = polls.svScan.ticks + 1

\* C8 as amended: the batch poller has issued one fetch at its start and one
\* per interval tick since; the scan pollers of App.vue and of the Settings
\* view have issued one fetch per interval tick and none at their start.
C8_FetchPerTick ==
    /\ app.batch.live # {} => polls.appBatch.fetches = polls.appBatch.ticks + 1
    /\ polls.appScan.fetches = polls.appScan.ticks
    /\ polls.svScan.fetches = polls.svScan.ticks

\* the scan poller of App.vue is live and has ticked: one fetch per tick
C8_Witness ==
    /\ app.scan.live # {}
    /\ polls.appScan.ticks >= 1 /\ polls.appScan.fetches = polls.appScan.ticks
    /\ \E r \in inflight : r.src = "appScanPoll"

\* C9: once a view is unmounted, none of the intervals it started is live.
C9_NoTimerAfterTeardown ==
    /\ app.state = "unmounted" => (app.scan.live = {} /\ app.batch.live = {})
    /\ sv.state = "unmounted" => sv.scan.live = {}

\* C10: once the batch job is over, every batch response has been applied, no
\* hide timer is pending and the batch poller of the mounted App is stopped
\* (nothing further will happen to the overlay), the overlay is hidden.
C10_ConvergesToHidden ==
    (/\ app.state = "mounted"
     /\ srv.batch.state \in {"done", "error"}
     /\ \A r \in inflight : KindOf(r.src) # "batch"
     /\ op.timers = {}
     /\ app.batch.live = {})
      => ~op.visible


---------------------------------------------------------------------------
(* Claims about the settings store and its form *)

\* the settings requests of one kind that this step resolves at the client
Resolving(kind) ==
    {r \in cfgReqs : r.kind = kind /\ r.stage = "resp" /\ r \notin cfgReqs'}

\* C11 (as stated): when a save fails at persistence, every setting of the
\* store equals its value from before the save was attempted, the store's
\* error is set and the status text of the view that saved shows the error.
C11_FailedSaveKeepsPrior ==
    [][\A r \in Resolving("save") :
          r.res # "ok" =>
              /\ Values(settings') = r.pre
              /\ settings'.error # Null
              /\ (form.state = "mounted" /\ r.inst = form.views)
                     => form'.saved = "Error: " \o settings'.error]_vars

\* C12 (as stated): between loading the form and invoking saveSettings the
\* store's values change only inside saveSettings.
C12_ValuesChangeOnlyInSave ==
    [][(/\ form.state = "mounted"
        /\ form'.state = "mounted"
        /\ Values(settings') # Values(settings))
           => form'.acts # form.acts /\ cfgHist' = "save"]_vars

\* C12 (amended): an edit of a staging ref, toggleLabel included, leaves
\* every value and flag of the settings store as it was and issues no
\* request; the store's values change only inside the view's saveSettings
\* or when a settings load completes.
C12_EditsAreStaged ==
    [][/\ (form'.acts # form.acts /\ cfgHist' = "edit")
              => settings' = settings /\ cfgReqs' = cfgReqs /\ db' = db
       /\ Values(settings') # Values(settings)
              => \/ form'.acts # form.acts /\ cfgHist' = "save"
                 \/ Resolving("load") # {}]_vars

\* an edit is staged: the form differs from the store, nothing is in flight
C12_Witness ==
    /\ cfgHist = "edit"
    /\ form.localDefaultLabelsToRemove # settings.defaultLabelsToRemove
    /\ settings.loaded
    /\ cfgReqs = {}

Loads == {r \in cfgReqs : r.kind = "load"}

\* C13 (as stated): at any time at most one settings load request is in flight.
C13_LoadedOnce ==
    Cardinality(Loads) <= 1

\* C14 (as stated): a failed load leaves every setting at its previous value,
\* sets the error, returns loading to false and leaves loaded false.
C14_FailedLoadLeavesLoadedFalse ==
    [][\A r \in Resolving("load") :
          r.res # "ok" =>
              /\ Values(settings') = Values(settings)
              /\ settings'.error # Null
              /\ ~settings'.loading
              /\ ~settings'.loaded]_vars


---------------------------------------------------------------------------
(* Claims about the preset service *)

\* the preset requests of one kind that this step resolves at the client
PResolving(kind) ==
    {r \in preqs : r.kind = kind /\ r.stage = "resp" /\ r \notin preqs'}

\* the presets of template t held before the save that the server stored last
Before(last, t) == last.before[t]

\* C15: after a save the server holds, under the saved template, a preset
\* with the saved id and the saved options, and as many presets as before
\* if the pair was there already; and when the load that follows the save
\* at the client (no other save in between, same template selected)
\* completes, the loaded list has a preset with the saved id and options and
\* the same length as before an overwrite.
C15_SaveLoadRoundTrip ==
    [][/\ pdb'.last # NoBody =>
            LET t == pdb'.last.template_id
                id == pdb'.last.preset_id
            IN /\ HasId(pdb'.data[t], id)
               /\ Find(pdb'.data[t], id).options = pdb'.last.options
               /\ Cardinality({i \in 1..Len(pdb'.data[t]) :
                                   pdb'.data[t][i].id = id}) = 1
               /\ HasId(Before(pdb'.last, t), id)
                      => Len(pdb'.data[t]) = Len(Before(pdb'.last, t))
       /\ \A r \in PResolving("load") :
            (/\ r.res = "ok"
             /\ r.cause # NoBody
             /\ r.seen # NoBody
             /\ r.seen.template_id = r.cause.template_id
             /\ r.seen.preset_id = r.cause.preset_id
             /\ r.seen.options = r.cause.options
             /\ psvc'.selectedTemplate = r.cause.template_id)
                => /\ HasId(psvc'.presets, r.cause.preset_id)
                   /\ Find(psvc'.presets, r.cause.preset_id).options
                          = r.cause.options
                   /\ HasId(Before(r.seen, r.cause.template_id), r.cause.preset_id)
                          => Len(psvc'.presets)
                                 = Len(Before(r.seen, r.cause.template_id))]_vars

\* a preset was overwritten with other options and loaded again
C15_Witness ==
    /\ psvc.did = "loaded"
    /\ preqs = {}
    /\ pdb.last # NoBody
    /\ HasId(Before(pdb.last, pdb.last.template_id), pdb.last.preset_id)
    /\ Find(Before(pdb.last, pdb.last.template_id), pdb.last.preset_id).options
           # pdb.last.options
    /\ psvc.selectedTemplate = pdb.last.template_id
    /\ HasId(psvc.presets, pdb.last.preset_id)
    /\ Find(psvc.presets, pdb.last.preset_id).options = pdb.last.options

\* C16 (as stated): a save of (template_id, preset_id) is stored whatever
\* other template holds a preset of the same id, and it never changes or
\* removes a preset of another template.
C16_PairsCoexist ==
    [][\A r \in preqs : \A q \in preqs' :
          (/\ r.kind = "save" /\ r.stage = "sent"
           /\ q.id = r.id /\ q.stage = "resp" /\ q.res \in {"ok", "conflict"})
              => /\ q.res = "ok"
                 /\ \A u \in DOMAIN pdb.data \ {r.body.template_id} :
                        pdb'.data[u] = pdb.data[u]]_vars

\* C17 (as stated): a load while the selected template is not among the
\* known templates yields an empty preset list and no error.
C17_UnknownTemplateEmpty ==
    [][\A r \in PResolving("load") :
          (r.res = "ok" /\ psvc.selectedTemplate \notin DOMAIN r.body)
              => psvc'.presets = <<>> /\ psvc'.error = Null]_vars

\* C17 (amended): a load while the selected template is not among the
\* templates the server returns sets no error and selects the first
\* returned template ("default" if none is returned); the list becomes
\* that template's presets, empty only if it has none.
C17_UnknownTemplateFallsBack ==
    [][\A r \in PResolving("load") :
          (r.res = "ok" /\ psvc.selectedTemplate \notin DOMAIN r.body)
              => /\ psvc'.error = psvc.error
                 /\ ~psvc'.loading
                 /\ psvc'.selectedTemplate =
                        IF Keys(r.body) # <<>> THEN Keys(r.body)[1] ELSE "default"
                 /\ psvc'.presets =
                        IF psvc'.selectedTemplate \in DOMAIN r.body
                        THEN r.body[psvc'.selectedTemplate] ELSE <<>>]_vars

\* the first load found "default" unknown and fell back to another template
C17_Witness ==
    /\ psvc.did = "loaded"
    /\ psvc.acts = 1
    /\ "default" \notin DOMAIN pdb.data
    /\ psvc.selectedTemplate # "default"
    /\ psvc.presets # <<>>
    /\ psvc.error = Null

\* C18: when a preset save request fails, the error is set, loading is back
\* to false and the loaded templates and presets, the selected template and
\* the selected preset are as they were.
C18_FailedSaveKeepsPresets ==
    [][\A r \in PResolving("save") :
          r.res # "ok"
              => /\ psvc'.error # Null
                 /\ ~psvc'.loading
                 /\ psvc'.presets = psvc.presets
                 /\ psvc'.templates = psvc.templates
                 /\ psvc'.selectedTemplate = psvc.selectedTemplate
                 /\ psvc'.selectedPreset = psvc.selectedPreset
                 /\ editor' = editor]_vars

\* a save has failed with presets loaded and one of them selected
C18_Witness ==
    /\ psvc.did = "saveFailed"
    /\ psvc.error # Null
    /\ ~psvc.loading
    /\ psvc.presets # <<>>
    /\ HasId(psvc.presets, psvc.selectedPreset)


---------------------------------------------------------------------------
(* Claims about the editor's live parameters *)

\* the live parameters that the options o give when every missing field
\* takes the editor's initial value
FromDefaults(o) == Seeded(Params, <<Preset("p1", o)>>, "p1")

\* C19 (as stated): live parameters seeded from a preset and not changed
\* since depend only on that preset's options, every missing field taking
\* its fixed default, and the options payload of a render call holds no null.
C19_SeedDependsOnlyOnOptions ==
    /\ editor.seed # NoBody => editor.params = FromDefaults(editor.seed)
    /\ editor.sent # NoBody => editor.sent.overlay_file # Null

\* the ratio options: multiples of 0.01 in 0..1, held in thousandths
IsRatio(x) == x \in 0..1000 /\ x % 10 = 0

\* C20 (as stated): when the preset that seeded the sliders has all its
\* ratio options in range, each slider is 100 times its ratio and the
\* payload built from the untouched sliders carries each ratio back.
C20_RatiosRoundTrip ==
    (/\ editor.seed # NoBody
     /\ \A k \in DOMAIN RatioKeys : Has(editor.seed, k) /\ IsRatio(editor.seed[k]))
        => \A k \in DOMAIN RatioKeys :
              /\ editor.params[RatioKeys[k].slider] * 10 = editor.seed[k]
              /\ OptionsPayload(editor.params)[k] = editor.seed[k]


---------------------------------------------------------------------------
(* Claims about the batch dialog *)

\* the batch requests of the dialog
BatchRequests(m) == {r \in m.reqs : r.kind = "batch"}

\* C22: a sendBatch call with no movie checked or without a template issues
\* no request, starts no progress interval, leaves isSending and the progress
\* counter as they were and adds one error notification; and every batch
\* request that is issued names a template and at least one movie.
C22_InvalidBatchRefused ==
    [][/\ (/\ modal'.acts = modal.acts + 1
           /\ modal'.did = "sendBatch"
           /\ (modal.checkedMovies = {} \/ modal.selectedTemplate = ""))
              => /\ modal'.reqs = modal.reqs
                 /\ modal'.intervals = modal.intervals
                 /\ modal'.isSending = modal.isSending
                 /\ modal'.currentIndex = modal.currentIndex
                 /\ Len(modal'.notes) = Len(modal.notes) + 1
                 /\ modal'.notes[Len(modal'.notes)].type = "error"
       /\ \A r \in BatchRequests(modal') :
              r.payload.rating_keys # {} /\ r.payload.template_id # ""]_vars

\* sendBatch was called with no movie checked, after templates were loaded
C22_Witness ==
    /\ modal.did = "sendBatch"
    /\ modal.isOpen
    /\ modal.templates # <<>>
    /\ modal.checkedMovies = {}
    /\ ~modal.isSending
    /\ BatchRequests(modal) = {}
    /\ \E k \in 1..Len(modal.notes) :
           modal.notes[k].message = "Please select movies and a template"


---------------------------------------------------------------------------
(* Claims about the legacy scan store and the scan started from Settings *)

\* C27 (as stated, its case of a run that ended in error): a done snapshot
\* applied when the last snapshot applied before it was an error snapshot,
\* so with no running snapshot in between, does not make the overlay visible.
C27_NoCompletionAfterError ==
    [][(scanHist.st = "error" /\ scanHist'.st = "done") => ~scan'.visible]_vars

\* the scan-library requests the server has not answered yet
ScanLibraryPending == {r \in inflight : r.src = "scanLibrary" /\ r.stage # "resp"}

C25_HideHarmlessWhileRunning ==
    [][(scan.running /\ scan'.timers # scan.timers /\ scanHist'.kind = "hide")
          => /\ scan'.visible = scan.visible
             /\ scan'.log = scan.log
             /\ scan'.current = scan.current]_vars

\* C26 (as stated): once scanLibrary has been called, its request has
\* resolved, no request is in flight, no timer is pending and no scan poller
\* is live (nothing further will happen to the overlay), the overlay is
\* hidden and scan.running is false.
C26_ScanOverlayHidden ==
    (/\ srv.runs > 0
     /\ inflight = {}
     /\ scan.timers = {}
     /\ sv.failTimers = 0
     /\ sv.scan.live = {}
     /\ app.scan.live = {})
      => (~scan.visible /\ ~scan.running)

\* C28 (as stated): while a scan-library request of this client is not yet
\* answered, scan.running is true.
C28_RunningUntilResolved ==
    ScanLibraryPending # {} => scan.running


---------------------------------------------------------------------------
(* Claims about the server's progress store and the completion banner *)

\* C23: from one snapshot of a running operation to the next, processed
\* does not decrease and grows by at most one (one item attempted), the
\* total once known does not change, and processed <= total whenever
\* total > 0.
C23_ProcessedMonotonic ==
    [][\A k \in Kinds :
          /\ (srv[k].state = "running" /\ srv'[k].state = "running")
                => /\ srv'[k].processed >= srv[k].processed
                   /\ srv'[k].processed <= srv[k].processed + 1
                   /\ srv[k].total > 0 => srv'[k].total = srv[k].total
          /\ srv'[k].total > 0 => srv'[k].processed <= srv'[k].total]_vars

\* a running job has attempted an item
C23_Witness ==
    \E k \in Kinds :
        /\ srv[k].state = "running"
        /\ srv[k].processed > 0
        /\ srv[k].processed = srv[k].total

\* C24 (as stated): while the operationStatus overlay shows a completion
\* (visible, state done or error), a step leaves it visible unless the hide
\* timer fires, reset() is called or a running snapshot is applied.
C24_CompletionStaysVisible ==
    [][(op.visible /\ op.state \in {"done", "error"})
          => \/ op'.visible
             \/ opHist'.kind \in {"hide", "reset"}
             \/ opHist'.kind = "apply" /\ opHist'.st = "running"]_vars


---------------------------------------------------------------------------
(* Claims about concurrent settings requests and about the pair a preset   *)
(* save names                                                              *)

\* C29 (as stated): when the request resolved last is a save that succeeded
\* and no settings request is in flight, the settings in memory are the
\* persisted ones.
C29_MemoryEqualsPersisted ==
    (cfgHist = "saved" /\ cfgReqs = {}) => Values(settings) = db

\* C30 (as stated): every preset save request that leaves the service names
\* the template whose presets the service holds and the id of one of them,
\* and its options are the given ones or those of that preset.
C30_SaveNamesLoadedPair ==
    [][\A r \in preqs' \ preqs :
          r.kind = "save"
              => /\ r.body.template_id = psvc.loadedFor
                 /\ HasId(psvc.presets, r.body.preset_id)]_vars

===========================================================================
